---- MODULE Spec2Model ----
(***************************************************************************)
(* Drift detection engine of kasa: the resource type resolver, the         *)
(* canonicalizer (cleanForImport), the structural differencer (DiffMaps),  *)
(* the drift classifier (CompareManifest) and the scan orchestrator        *)
(* (RunDriftScan), together with the diff_resource tool that runs one      *)
(* comparison.                                                             *)
(***************************************************************************)
EXTENDS Integers, Sequences, FiniteSets, TLC

VARIABLES
    store,        \* the manifest store: listing order, raw text / read failure
    listErr,      \* "" or the error ListManifests returns
    cluster,      \* cluster[i]: what the cluster answers to the get for store[i]
    hasProgress,  \* whether the caller supplied a progress callback
    pc,           \* position of the running operation
    idx,          \* loop index i of RunDriftScan (0-based)
    results,      \* the *DriftScanResults being built (NoResults = nil)
    ret,          \* the returned (results, err) pair
    calls,        \* collaborator calls issued so far, in order
    toolResp,     \* the response map of diff_resource
    mapOrder,     \* the order in which this run's "range" over a map yields keys
    arg,          \* the arguments of a direct call of the differencer / canonicalizer
    out,          \* what that call returned
    ctx,          \* the context RunDriftScan was given: "live" or "cancelled"
    repl          \* the interactive REPL: session state, input, agent run, event channel

vars ==
    <<store, listErr, cluster, hasProgress, pc, idx, results, ret, calls, toolResp,
      mapOrder, arg, out, ctx, repl>>

-----------------------------------------------------------------------------
(* Go strings package                                                      *)

HasPrefix(s, p) == Len(s) >= Len(p) /\ SubSeq(s, 1, Len(p)) = p

HasSuffix(s, x) == Len(s) >= Len(x) /\ SubSeq(s, Len(s) - Len(x) + 1, Len(s)) = x

Contains(s, sub) ==
    \E i \in 1..(Len(s) - Len(sub) + 1) : SubSeq(s, i, i + Len(sub) - 1) = sub

UpperLetters == "ABCDEFGHIJKLMNOPQRSTUVWXYZ"

LowerLetters == "abcdefghijklmnopqrstuvwxyz"

ToLowerChar(c) ==
    IF \E i \in 1..Len(UpperLetters) : SubSeq(UpperLetters, i, i) = c
    THEN LET i == CHOOSE j \in 1..Len(UpperLetters) : SubSeq(UpperLetters, j, j) = c
         IN  SubSeq(LowerLetters, i, i)
    ELSE c

RECURSIVE ToLower(_)
ToLower(s) ==
    IF Len(s) = 0 THEN ""
    ELSE ToLowerChar(SubSeq(s, 1, 1)) \o ToLower(SubSeq(s, 2, Len(s)))

\* The characters of the model's strings in byte order (sort.Strings compares bytes).
ByteOrder == " '-./0123456789:ABCDEFGHIJKLMNOPQRSTUVWXYZ[]_abcdefghijklmnopqrstuvwxyz"

Rank(c) == CHOOSE i \in 1..Len(ByteOrder) : SubSeq(ByteOrder, i, i) = c

RECURSIVE StrLess(_, _)
StrLess(a, b) ==
    IF Len(b) = 0 THEN FALSE
    ELSE IF Len(a) = 0 THEN TRUE
    ELSE LET ca == Rank(SubSeq(a, 1, 1))
             cb == Rank(SubSeq(b, 1, 1))
         IN  IF ca # cb THEN ca < cb
             ELSE StrLess(SubSeq(a, 2, Len(a)), SubSeq(b, 2, Len(b)))

\* The strings of S in increasing byte order.
RECURSIVE Ascending(_)
Ascending(S) ==
    IF S = {} THEN <<>>
    ELSE LET m == CHOOSE x \in S : \A y \in S \ {x} : StrLess(x, y)
         IN  <<m>> \o Ascending(S \ {m})

Reverse(s) == [i \in 1..Len(s) |-> s[Len(s) + 1 - i]]

\* Go leaves the iteration order of a map unspecified; a run is given one of these.
MapOrders == {"ascending", "descending"}

\* "for k := range m" over a map with key set S: the keys in this run's order.
RangeKeys(S) == IF mapOrder = "descending" THEN Reverse(Ascending(S)) ELSE Ascending(S)

\* Insertion of one key into an already sorted slice.
RECURSIVE InsertSorted(_, _)
InsertSorted(k, sorted) ==
    IF sorted = <<>> THEN <<k>>
    ELSE IF StrLess(Head(sorted), k) THEN <<Head(sorted)>> \o InsertSorted(k, Tail(sorted))
    ELSE <<k>> \o sorted

\* SortStrings that leaves the slice in the order the map yielded it.
SortStrings_Unsorted(keys) == keys

\* sort.Strings(keys)
RECURSIVE SortStrings(_)
SortStrings(keys) ==
    IF keys = <<>> THEN <<>>
    ELSE InsertSorted(Head(keys), SortStrings(Tail(keys)))

-----------------------------------------------------------------------------
(* Go values of type any, as a decoded YAML/JSON document holds them.      *)
(* A map[string]any is a function from its keys to tagged values.          *)

\* A number is kept exactly as hi * 2^53 + lo, with hi in {0, 1} and lo small, so
\* that the integers on both sides of the float64 precision limit can be told apart.
Small(n) == [hi |-> 0, lo |-> n]

Above2to53(n) == [hi |-> 1, lo |-> n]

Number(type, x) == [t |-> type, v |-> x]

Str(s)   == [t |-> "string",  v |-> s]
Int64(n) == Number("int64", Small(n))
Float(n) == Number("float64", Small(n))   \* the float64 with integral value n
Bool(b)  == [t |-> "bool",    v |-> b]
Nil      == [t |-> "nil",     v |-> <<>>]
Map(m)   == [t |-> "map",     v |-> m]
Slice(s) == [t |-> "slice",   v |-> s]

EmptyMap == <<>>

\* delete(m, k)
Delete(m, k) == [x \in (DOMAIN m) \ {k} |-> m[x]]

\* v, ok := m[k].(map[string]any)
IsMapAt(m, k) == k \in DOMAIN m /\ m[k].t = "map"

\* m[k] = v
Put(m, k, val) == [x \in (DOMAIN m) \cup {k} |-> IF x = k THEN val ELSE m[x]]

-----------------------------------------------------------------------------
(* clean.go                                                                *)

\* shouldRemoveAnnotation that looks for the tooling names anywhere in the key.
shouldRemoveAnnotation_Contains(key) ==
    \/ Contains(key, "kubectl.kubernetes.io/")
    \/ Contains(key, "deployment.kubernetes.io/")
    \/ key = "kubernetes.io/change-cause"

shouldRemoveAnnotation(key) ==
    \/ HasPrefix(key, "kubectl.kubernetes.io/")
    \/ HasPrefix(key, "deployment.kubernetes.io/")
    \/ key = "kubernetes.io/change-cause"

\* RuntimeMetadataFields without selfLink.
RuntimeMetadataFields_NoSelfLink ==
    {"uid", "resourceVersion", "generation", "creationTimestamp", "managedFields"}

RuntimeMetadataFields ==
    {"uid", "resourceVersion", "generation", "creationTimestamp", "managedFields", "selfLink"}

\* cleanForImport that tests for an empty annotations map before it removes keys.
cleanForImport_EmptyCheckFirst(resource) ==
    LET cleanAnnotations(metadata) ==
            IF IsMapAt(metadata, "annotations")
            THEN LET annotations == metadata["annotations"].v
                     kept == [k \in {x \in DOMAIN annotations : ~shouldRemoveAnnotation(x)}
                                 |-> annotations[k]]
                 IN  IF DOMAIN annotations = {}
                     THEN Delete(metadata, "annotations")
                     ELSE Put(metadata, "annotations", Map(kept))
            ELSE metadata
        cleanMetadata(r) ==
            IF IsMapAt(r, "metadata")
            THEN LET md == r["metadata"].v
                     stripped == [k \in (DOMAIN md) \ RuntimeMetadataFields |-> md[k]]
                 IN  Put(r, "metadata", Map(cleanAnnotations(stripped)))
            ELSE r
        cleanSpec(r) ==
            IF IsMapAt(r, "spec")
            THEN Put(r, "spec", Map(Delete(Delete(r["spec"].v, "clusterIP"), "clusterIPs")))
            ELSE r
    IN  cleanSpec(Delete(cleanMetadata(resource), "status"))

cleanForImport(resource) ==
    LET cleanAnnotations(metadata) ==
            IF IsMapAt(metadata, "annotations")
            THEN LET annotations == metadata["annotations"].v
                     kept == [k \in {x \in DOMAIN annotations : ~shouldRemoveAnnotation(x)}
                                 |-> annotations[k]]
                 IN  IF DOMAIN kept = {}
                     THEN Delete(metadata, "annotations")
                     ELSE Put(metadata, "annotations", Map(kept))
            ELSE metadata
        cleanMetadata(r) ==
            IF IsMapAt(r, "metadata")
            THEN LET md == r["metadata"].v
                     stripped == [k \in (DOMAIN md) \ RuntimeMetadataFields |-> md[k]]
                 IN  Put(r, "metadata", Map(cleanAnnotations(stripped)))
            ELSE r
        cleanSpec(r) ==
            IF IsMapAt(r, "spec")
            THEN Put(r, "spec", Map(Delete(Delete(r["spec"].v, "clusterIP"), "clusterIPs")))
            ELSE r
    IN  cleanSpec(Delete(cleanMetadata(resource), "status"))

-----------------------------------------------------------------------------
(* drift.go: the structural differencer                                    *)

DiffEntry(path, changeType, stored, live) ==
    [Path |-> path, ChangeType |-> changeType, Stored |-> stored, Live |-> live]

\* float64(n) of an integer n: exact up to 2^53; between 2^53 and 2^54 only the
\* even integers exist, and an odd one goes to the neighbour with the even mantissa.
RoundToFloat64(x) ==
    IF x.hi = 0 \/ x.lo <= 0 \/ x.lo % 2 = 0 THEN x
    ELSE IF ((x.lo - 1) \div 2) % 2 = 0 THEN [x EXCEPT !.lo = @ - 1]
    ELSE [x EXCEPT !.lo = @ + 1]

\* The cases of the type switch in toFloat64.
ConvertedTypes == {"float64", "float32", "int", "int32", "int64", "uint", "uint32", "uint64"}

\* The ok result of toFloat64.
IsNumeric(a) == a.t \in ConvertedTypes

\* The float64 result of toFloat64, for a value whose type the switch has.
toFloat64(a) == IF a.t \in {"float64", "float32"} THEN a.v ELSE RoundToFloat64(a.v)

\* reflect.DeepEqual on decoded values: same dynamic type and same content.
DeepEqual(a, b) == a.t = b.t /\ a.v = b.v

\* numericallyEqual without the reflect.DeepEqual test.
numericallyEqual_NumbersOnly(a, b) ==
    IF IsNumeric(a) /\ IsNumeric(b) THEN toFloat64(a) = toFloat64(b)
    ELSE FALSE

numericallyEqual(a, b) ==
    IF DeepEqual(a, b) THEN TRUE
    ELSE IF IsNumeric(a) /\ IsNumeric(b) THEN toFloat64(a) = toFloat64(b)
    ELSE FALSE

\* max returning the smaller length.
Max_Min(a, b) == IF a >= b THEN b ELSE a

Max(a, b) == IF a >= b THEN a ELSE b

RECURSIVE DiffMaps(_, _, _)
RECURSIVE DiffMapsLoop(_, _, _, _)
RECURSIVE diffValues(_, _, _)
RECURSIVE diffSlices(_, _, _)
RECURSIVE diffSlicesLoop(_, _, _, _)

\* DiffMapsLoop with the two one-sided cases labelled the other way round.
DiffMapsLoop_SwappedLabels(stored, live, prefix, keys) ==
    IF keys = <<>> THEN <<>>
    ELSE LET key  == Head(keys)
             path == IF prefix # "" THEN prefix \o "." \o key ELSE key
             here == IF key \notin DOMAIN stored
                     THEN <<DiffEntry(path, "removed", Nil, live[key])>>
                     ELSE IF key \notin DOMAIN live
                     THEN <<DiffEntry(path, "added", stored[key], Nil)>>
                     ELSE diffValues(stored[key], live[key], path)
         IN  here \o DiffMapsLoop(stored, live, prefix, Tail(keys))

\* The body of "for _, key := range keys", for the keys still to visit.
DiffMapsLoop(stored, live, prefix, keys) ==
    IF keys = <<>> THEN <<>>
    ELSE LET key  == Head(keys)
             path == IF prefix # "" THEN prefix \o "." \o key ELSE key
             here == IF key \notin DOMAIN stored
                     THEN <<DiffEntry(path, "added", Nil, live[key])>>
                     ELSE IF key \notin DOMAIN live
                     THEN <<DiffEntry(path, "removed", stored[key], Nil)>>
                     ELSE diffValues(stored[key], live[key], path)
         IN  here \o DiffMapsLoop(stored, live, prefix, Tail(keys))

DiffMaps(stored, live, prefix) ==
    DiffMapsLoop(stored, live, prefix, SortStrings(RangeKeys((DOMAIN stored) \cup (DOMAIN live))))

\* diffValues that reports a change only between two values that are neither
\* maps nor lists.
diffValues_ScalarsOnly(stored, live, path) ==
    IF stored.t = "map" /\ live.t = "map"
    THEN DiffMaps(stored.v, live.v, path)
    ELSE IF stored.t = "slice" /\ live.t = "slice"
    THEN diffSlices(stored.v, live.v, path)
    ELSE IF stored.t \in {"map", "slice"} \/ live.t \in {"map", "slice"}
    THEN <<>>
    ELSE IF ~numericallyEqual(stored, live)
    THEN <<DiffEntry(path, "changed", stored, live)>>
    ELSE <<>>

diffValues(stored, live, path) ==
    IF stored.t = "map" /\ live.t = "map"
    THEN DiffMaps(stored.v, live.v, path)
    ELSE IF stored.t = "slice" /\ live.t = "slice"
    THEN diffSlices(stored.v, live.v, path)
    ELSE IF ~numericallyEqual(stored, live)
    THEN <<DiffEntry(path, "changed", stored, live)>>
    ELSE <<>>

\* diffSlicesLoop that writes list positions counted from one.
diffSlicesLoop_OneBased(stored, live, path, i) ==
    IF i >= Max(Len(stored), Len(live)) THEN <<>>
    ELSE LET elemPath == path \o "[" \o ToString(i + 1) \o "]"
             here == IF i >= Len(stored)
                     THEN <<DiffEntry(elemPath, "added", Nil, live[i + 1])>>
                     ELSE IF i >= Len(live)
                     THEN <<DiffEntry(elemPath, "removed", stored[i + 1], Nil)>>
                     ELSE diffValues(stored[i + 1], live[i + 1], elemPath)
         IN  here \o diffSlicesLoop(stored, live, path, i + 1)

\* The body of "for i := 0; i < maxLen; i++", from index i on.
diffSlicesLoop(stored, live, path, i) ==
    IF i >= Max(Len(stored), Len(live)) THEN <<>>
    ELSE LET elemPath == path \o "[" \o ToString(i) \o "]"
             here == IF i >= Len(stored)
                     THEN <<DiffEntry(elemPath, "added", Nil, live[i + 1])>>
                     ELSE IF i >= Len(live)
                     THEN <<DiffEntry(elemPath, "removed", stored[i + 1], Nil)>>
                     ELSE diffValues(stored[i + 1], live[i + 1], elemPath)
         IN  here \o diffSlicesLoop(stored, live, path, i + 1)

diffSlices(stored, live, path) == diffSlicesLoop(stored, live, path, 0)

-----------------------------------------------------------------------------
(* The resource type resolver                                              *)

GVR(group, version, resource) == [Group |-> group, Version |-> version, Resource |-> resource]

ZeroGVR == GVR("", "", "")

CommonGVRs ==
    [ pod |-> GVR("", "v1", "pods"),
      service |-> GVR("", "v1", "services"),
      configmap |-> GVR("", "v1", "configmaps"),
      secret |-> GVR("", "v1", "secrets"),
      namespace |-> GVR("", "v1", "namespaces"),
      persistentvolumeclaim |-> GVR("", "v1", "persistentvolumeclaims"),
      serviceaccount |-> GVR("", "v1", "serviceaccounts"),
      deployment |-> GVR("apps", "v1", "deployments"),
      statefulset |-> GVR("apps", "v1", "statefulsets"),
      daemonset |-> GVR("apps", "v1", "daemonsets"),
      replicaset |-> GVR("apps", "v1", "replicasets"),
      job |-> GVR("batch", "v1", "jobs"),
      cronjob |-> GVR("batch", "v1", "cronjobs"),
      ingress |-> GVR("networking.k8s.io", "v1", "ingresses"),
      networkpolicy |-> GVR("networking.k8s.io", "v1", "networkpolicies"),
      role |-> GVR("rbac.authorization.k8s.io", "v1", "roles"),
      rolebinding |-> GVR("rbac.authorization.k8s.io", "v1", "rolebindings"),
      clusterrole |-> GVR("rbac.authorization.k8s.io", "v1", "clusterroles"),
      clusterrolebinding |-> GVR("rbac.authorization.k8s.io", "v1", "clusterrolebindings"),
      gateway |-> GVR("gateway.networking.k8s.io", "v1", "gateways"),
      httproute |-> GVR("gateway.networking.k8s.io", "v1", "httproutes"),
      grpcroute |-> GVR("gateway.networking.k8s.io", "v1", "grpcroutes"),
      tcproute |-> GVR("gateway.networking.k8s.io", "v1", "tcproutes"),
      udproute |-> GVR("gateway.networking.k8s.io", "v1", "udproutes"),
      tlsroute |-> GVR("gateway.networking.k8s.io", "v1", "tlsroutes"),
      referencegrant |-> GVR("gateway.networking.k8s.io", "v1beta1", "referencegrants"),
      gatewayclass |-> GVR("gateway.networking.k8s.io", "v1", "gatewayclasses"),
      certificate |-> GVR("cert-manager.io", "v1", "certificates"),
      issuer |-> GVR("cert-manager.io", "v1", "issuers"),
      clusterissuer |-> GVR("cert-manager.io", "v1", "clusterissuers"),
      certificaterequest |-> GVR("cert-manager.io", "v1", "certificaterequests"),
      horizontalpodautoscaler |-> GVR("autoscaling", "v2", "horizontalpodautoscalers") ]

KindAliases ==
    [ po |-> "pod",
      pods |-> "pod",
      svc |-> "service",
      services |-> "service",
      cm |-> "configmap",
      configmaps |-> "configmap",
      secrets |-> "secret",
      ns |-> "namespace",
      namespaces |-> "namespace",
      pvc |-> "persistentvolumeclaim",
      persistentvolumeclaims |-> "persistentvolumeclaim",
      sa |-> "serviceaccount",
      serviceaccounts |-> "serviceaccount",
      deploy |-> "deployment",
      deployments |-> "deployment",
      sts |-> "statefulset",
      statefulsets |-> "statefulset",
      ds |-> "daemonset",
      daemonsets |-> "daemonset",
      rs |-> "replicaset",
      replicasets |-> "replicaset",
      jobs |-> "job",
      cronjobs |-> "cronjob",
      ing |-> "ingress",
      ingresses |-> "ingress",
      netpol |-> "networkpolicy",
      networkpolicies |-> "networkpolicy",
      roles |-> "role",
      rolebindings |-> "rolebinding",
      clusterroles |-> "clusterrole",
      clusterrolebindings |-> "clusterrolebinding",
      gw |-> "gateway",
      gateways |-> "gateway",
      httproutes |-> "httproute",
      grpcroutes |-> "grpcroute",
      tcproutes |-> "tcproute",
      udproutes |-> "udproute",
      tlsroutes |-> "tlsroute",
      referencegrants |-> "referencegrant",
      gatewayclasses |-> "gatewayclass",
      gc |-> "gatewayclass",
      cert |-> "certificate",
      certificates |-> "certificate",
      issuers |-> "issuer",
      clusterissuers |-> "clusterissuer",
      certificaterequests |-> "certificaterequest",
      cr |-> "certificaterequest",
      hpa |-> "horizontalpodautoscaler",
      horizontalpodautoscalers |-> "horizontalpodautoscaler" ]

ClusterScopedKinds ==
    {"namespace", "clusterrole", "clusterrolebinding", "clusterissuer", "gatewayclass"}

\* NormalizeKindName that looks the kind up as it is spelled.
NormalizeKindName_NoLower(kind) ==
    IF kind \in DOMAIN KindAliases THEN KindAliases[kind] ELSE kind

NormalizeKindName(kind) ==
    LET k == ToLower(kind)
    IN  IF k \in DOMAIN KindAliases THEN KindAliases[k] ELSE k

LookupGVR(kind) ==
    LET normalized == NormalizeKindName(kind)
    IN  IF normalized \in DOMAIN CommonGVRs
        THEN [gvr |-> CommonGVRs[normalized], found |-> TRUE]
        ELSE [gvr |-> ZeroGVR, found |-> FALSE]

\* IsNamespaced that looks the kind up as it is given, aliases not resolved.
IsNamespaced_NoNormalize(kind) == kind \notin ClusterScopedKinds

IsNamespaced(kind) == NormalizeKindName(kind) \notin ClusterScopedKinds

\* strings.SplitN(apiVersion, "/", 2)
ParseAPIVersion(apiVersion) ==
    LET slashes == {i \in 1..Len(apiVersion) : SubSeq(apiVersion, i, i) = "/"}
    IN  IF slashes = {}
        THEN [group |-> "", version |-> apiVersion]
        ELSE LET i == CHOOSE j \in slashes : \A k \in slashes : j <= k
             IN  [group   |-> SubSeq(apiVersion, 1, i - 1),
                  version |-> SubSeq(apiVersion, i + 1, Len(apiVersion))]

\* The fallback that always appends "s".
Pluralize_AlwaysS(resource) == resource \o "s"

\* The pluralization fallback for kinds the table does not know.
Pluralize(resource) ==
    IF \/ HasSuffix(resource, "s") \/ HasSuffix(resource, "x")
       \/ HasSuffix(resource, "ch") \/ HasSuffix(resource, "sh")
    THEN resource \o "es"
    ELSE resource \o "s"

BuildGVRFromKindAndAPIVersion(kind, apiVersion) ==
    LET normalized == NormalizeKindName(kind)
        gv == ParseAPIVersion(apiVersion)
    IN  IF apiVersion = "" THEN LookupGVR(normalized)
        ELSE IF normalized \in DOMAIN CommonGVRs
        THEN [gvr |-> GVR(gv.group, gv.version, CommonGVRs[normalized].Resource), found |-> TRUE]
        ELSE [gvr |-> GVR(gv.group, gv.version, Pluralize(normalized)), found |-> TRUE]

-----------------------------------------------------------------------------
(* Stored manifest texts and what yaml.Unmarshal makes of them.  Every     *)
(* number of a decoded YAML document is a float64.                         *)

TextService ==
    "apiVersion: v1\nkind: Service\nmetadata:\n  name: myapp\nspec:\n  ports:\n  - port: 80\n"

TextServiceTwoPorts ==
    "apiVersion: v1\nkind: Service\nmetadata:\n  name: myapp\nspec:\n  ports:\n  - port: 80\n  - port: 443\n"

TextServiceNoAPIVersion ==
    "kind: Service\nmetadata:\n  name: myapp\nspec:\n  ports:\n  - port: 80\n"

TextServiceImported ==
    "apiVersion: v1\nkind: Service\nmetadata:\n  annotations:\n    kubernetes.io/change-cause: rollout\n  name: myapp\n  uid: u-1\nspec:\n  clusterIP: 10.0.0.7\n  ports:\n  - port: 80\nstatus:\n  loadBalancer: {}\n"

\* A manifest saved as the cluster returned it, nothing cleaned.
TextServiceFromCluster ==
    "apiVersion: v1\nkind: Service\nmetadata:\n  annotations:\n    deployment.kubernetes.io/revision: \"3\"\n    kubectl.kubernetes.io/last-applied-configuration: '{}'\n  creationTimestamp: \"2024-05-01T10:00:00Z\"\n  generation: 3\n  managedFields:\n  - manager: kubectl\n  name: myapp\n  resourceVersion: \"4711\"\n  selfLink: /api/v1/namespaces/prod/services/myapp\n  uid: u-1\nspec:\n  clusterIP: 10.0.0.7\n  clusterIPs:\n  - 10.0.0.7\n  ports:\n  - port: 80\nstatus:\n  loadBalancer: {}\n"

\* A Service declared under a group of its own.
TextServiceGrouped ==
    "apiVersion: example.com/v1beta1\nkind: Service\nmetadata:\n  name: myapp\nspec:\n  ports:\n  - port: 80\n"

TextEmpty == ""

TextTruncated == "kind: ["

TextSequence == "- a\n- b\n"

PortsOf(ports) == Slice([i \in 1..Len(ports) |-> Map([port |-> ports[i]])])

ServiceDoc(ports) ==
    [apiVersion |-> Str("v1"), kind |-> Str("Service"),
     metadata |-> Map([name |-> Str("myapp")]),
     spec |-> Map([ports |-> PortsOf(ports)])]

Parsed(doc) == [err |-> "", doc |-> doc]

ParseFailure(msg) == [err |-> msg, doc |-> EmptyMap]

YamlUnmarshal(text) ==
    CASE text = TextService -> Parsed(ServiceDoc(<<Float(80)>>))
      [] text = TextServiceTwoPorts -> Parsed(ServiceDoc(<<Float(80), Float(443)>>))
      [] text = TextServiceNoAPIVersion ->
            Parsed(Delete(ServiceDoc(<<Float(80)>>), "apiVersion"))
      [] text = TextServiceImported ->
            Parsed([apiVersion |-> Str("v1"), kind |-> Str("Service"),
                    metadata |-> Map([annotations |->
                                          Map([x \in {"kubernetes.io/change-cause"} |-> Str("rollout")]),
                                      name |-> Str("myapp"), uid |-> Str("u-1")]),
                    spec |-> Map([clusterIP |-> Str("10.0.0.7"),
                                  ports |-> PortsOf(<<Float(80)>>)]),
                    status |-> Map([loadBalancer |-> Map(EmptyMap)])])
      [] text = TextServiceFromCluster ->
            Parsed([apiVersion |-> Str("v1"), kind |-> Str("Service"),
                    metadata |->
                        Map([annotations |->
                                 Map([x \in {"deployment.kubernetes.io/revision",
                                             "kubectl.kubernetes.io/last-applied-configuration"} |->
                                         IF x = "deployment.kubernetes.io/revision"
                                         THEN Str("3") ELSE Str("{}")]),
                             creationTimestamp |-> Str("2024-05-01T10:00:00Z"),
                             generation |-> Float(3),
                             managedFields |-> Slice(<<Map([manager |-> Str("kubectl")])>>),
                             name |-> Str("myapp"),
                             resourceVersion |-> Str("4711"),
                             selfLink |-> Str("/api/v1/namespaces/prod/services/myapp"),
                             uid |-> Str("u-1")]),
                    spec |-> Map([clusterIP |-> Str("10.0.0.7"),
                                  clusterIPs |-> Slice(<<Str("10.0.0.7")>>),
                                  ports |-> PortsOf(<<Float(80)>>)]),
                    status |-> Map([loadBalancer |-> Map(EmptyMap)])])
      [] text = TextServiceGrouped ->
            Parsed([ServiceDoc(<<Float(80)>>) EXCEPT !.apiVersion = Str("example.com/v1beta1")])
      [] text = TextEmpty -> Parsed(EmptyMap)
      [] text = TextTruncated ->
            ParseFailure("error converting YAML to JSON: yaml: line 1: did not find expected node content")
      [] text = TextSequence ->
            ParseFailure("error unmarshaling JSON: while decoding JSON: json: cannot unmarshal array into Go value of type map[string]interface {}")

-----------------------------------------------------------------------------
(* What the cluster answers to a get: an object, or an error with the      *)
(* cause the API machinery reports and the message err.Error() yields.     *)

Got(obj) == [err |-> "", cause |-> "none", obj |-> obj]

GetFailed(cause, msg) == [err |-> msg, cause |-> cause, obj |-> EmptyMap]

\* A live Service as the API server returns it: integers decode as int64,
\* and the server has added its own metadata, addresses and status.
LiveService(extraSpec, extraMeta) ==
    [apiVersion |-> Str("v1"), kind |-> Str("Service"),
     metadata |-> Map([x \in {"name", "uid", "resourceVersion", "annotations"} \cup DOMAIN extraMeta |->
                        CASE x = "name" -> Str("myapp")
                          [] x = "uid" -> Str("u-1")
                          [] x = "resourceVersion" -> Str("4711")
                          [] x = "annotations" ->
                                Map([k \in {"kubectl.kubernetes.io/last-applied-configuration"} |-> Str("{}")])
                          [] OTHER -> extraMeta[x]]),
     spec |-> Map([x \in {"clusterIP", "clusterIPs"} \cup DOMAIN extraSpec |->
                        CASE x = "clusterIP" -> Str("10.0.0.7")
                          [] x = "clusterIPs" -> Slice(<<Str("10.0.0.7")>>)
                          [] OTHER -> extraSpec[x]]),
     status |-> Map([loadBalancer |-> Map(EmptyMap)])]

LiveSame == LiveService([ports |-> PortsOf(<<Int64(80)>>)], EmptyMap)

LiveChangedPort == LiveService([ports |-> PortsOf(<<Int64(8080)>>)], EmptyMap)

LiveExtraPort == LiveService([ports |-> PortsOf(<<Int64(80), Int64(443)>>)], EmptyMap)

LiveNoPorts == LiveService(EmptyMap, EmptyMap)

LiveLabelled ==
    LiveService([ports |-> PortsOf(<<Int64(80)>>), type |-> Str("ClusterIP")],
                [labels |-> Map([app |-> Str("myapp")])])

\* The same Service with every field a server may add to the metadata.
LiveFromCluster ==
    LiveService([ports |-> PortsOf(<<Int64(80)>>)],
                [generation |-> Int64(3), creationTimestamp |-> Str("2024-05-01T10:00:00Z"),
                 managedFields |-> Slice(<<Map([manager |-> Str("kubectl")])>>),
                 selfLink |-> Str("/api/v1/namespaces/prod/services/myapp")])

\* The same Service as a client returns it that adds nothing of its own.
LiveBare == ServiceDoc(<<Int64(80)>>)

LiveObjects ==
    {LiveSame, LiveChangedPort, LiveExtraPort, LiveNoPorts, LiveLabelled, LiveFromCluster, LiveBare}

ErrNotFound == GetFailed("ResourceNotFound", "services \"myapp\" not found")

ErrNoSuchType == GetFailed("UnknownResourceType", "the server could not find the requested resource")

ErrForbidden ==
    GetFailed("Forbidden", "services \"myapp\" is forbidden: User \"dev\" cannot get resource \"services\" in API group \"\" in the namespace \"prod\"")

ErrTimeout == GetFailed("Timeout", "context deadline exceeded")

ErrCanceled == GetFailed("Canceled", "context canceled")

ErrNetwork ==
    GetFailed("Network", "Get \"https://10.0.0.1:6443/api/v1/namespaces/prod/services/myapp\": dial tcp 10.0.0.1:6443: connect: connection refused")

ErrCredentials ==
    GetFailed("Credentials", "Get \"https://10.0.0.1:6443/api/v1/namespaces/prod/services/myapp\": getting credentials: exec: executable kubelogin not found")

GetFailures ==
    {ErrNotFound, ErrNoSuchType, ErrForbidden, ErrTimeout, ErrCanceled, ErrNetwork, ErrCredentials}

-----------------------------------------------------------------------------
(* The manifest store: <namespace>/<app>/<type>.yaml under the base        *)
(* directory.  A store entry carries the file's text and whether the file  *)
(* can still be read when ReadManifest gets to it.                         *)

StoredFile(namespace, app, type, content, file) ==
    [Namespace |-> namespace, App |-> app, Type |-> type, Content |-> content, File |-> file]

RelPath(m) == m.Namespace \o "/" \o m.App \o "/" \o m.Type \o ".yaml"

ManifestInfo(m) ==
    [Namespace |-> m.Namespace, App |-> m.App, Type |-> m.Type, Path |-> RelPath(m)]

ListManifests(st, walkErr, namespace, app) ==
    IF walkErr # ""
    THEN [manifests |-> <<>>, err |-> "walking manifest directory: " \o walkErr]
    ELSE [manifests |->
              LET keep == SelectSeq(st, LAMBDA m : /\ (namespace = "" \/ m.Namespace = namespace)
                                                   /\ (app = "" \/ m.App = app))
              IN  [i \in 1..Len(keep) |-> ManifestInfo(keep[i])],
          err |-> ""]

ReadManifest(m) ==
    CASE m.File = "present" -> [text |-> m.Content, err |-> ""]
      [] m.File = "absent" -> [text |-> "", err |-> "manifest not found: " \o RelPath(m)]
      [] m.File = "unreadable" ->
            [text |-> "",
             err |-> "reading manifest: open /deployments/" \o RelPath(m) \o ": permission denied"]

-----------------------------------------------------------------------------
(* drift.go: the live object fetcher and the drift classifier              *)

Call(op, args) == [op |-> op, args |-> args]

\* FetchAndCleanLiveResource that writes the cleaned object back to the cluster.
FetchAndCleanLiveResource_UpdatesLive(resp, namespace, name, kind, apiVersion) ==
    LET r == BuildGVRFromKindAndAPIVersion(kind, apiVersion)
        namespaced == IsNamespaced(kind)
        resolve == Call("resolve", <<kind, apiVersion>>)
        get == Call("get", [gvr |-> r.gvr, namespaced |-> namespaced,
                            namespace |-> IF namespaced THEN namespace ELSE "",
                            name |-> name])
    IN  IF ~r.found
        THEN [live |-> EmptyMap, err |-> "unknown resource kind '" \o kind \o "'",
              calls |-> <<resolve>>]
        ELSE IF resp.err # ""
        THEN [live |-> EmptyMap, err |-> resp.err, calls |-> <<resolve, get>>]
        ELSE [live |-> cleanForImport(resp.obj), err |-> "",
              calls |-> <<resolve, get, Call("update", cleanForImport(resp.obj))>>]

FetchAndCleanLiveResource(resp, namespace, name, kind, apiVersion) ==
    LET r == BuildGVRFromKindAndAPIVersion(kind, apiVersion)
        namespaced == IsNamespaced(kind)
        resolve == Call("resolve", <<kind, apiVersion>>)
        get == Call("get", [gvr |-> r.gvr, namespaced |-> namespaced,
                            namespace |-> IF namespaced THEN namespace ELSE "",
                            name |-> name])
    IN  IF ~r.found
        THEN [live |-> EmptyMap, err |-> "unknown resource kind '" \o kind \o "'",
              calls |-> <<resolve>>]
        ELSE IF resp.err # ""
        THEN [live |-> EmptyMap, err |-> resp.err, calls |-> <<resolve, get>>]
        ELSE [live |-> cleanForImport(resp.obj), err |-> "", calls |-> <<resolve, get>>]

DriftResult(namespace, name, kind, status, diffs, error) ==
    [Namespace |-> namespace, Name |-> name, Kind |-> kind,
     Status |-> status, Diffs |-> diffs, Error |-> error]

\* CompareManifest that never looks at the stored document's apiVersion.
DeclaredAPIVersion_Ignored(storedMap) == ""

\* apiVersion, _ := storedMap["apiVersion"].(string)
DeclaredAPIVersion(storedMap) ==
    IF "apiVersion" \in DOMAIN storedMap /\ storedMap["apiVersion"].t = "string"
    THEN storedMap["apiVersion"].v
    ELSE ""

\* FilterDrift with the test narrowed to d.ChangeType == "changed".
FilterDrift_ChangedOnly(allDiffs) == SelectSeq(allDiffs, LAMBDA d : d.ChangeType = "changed")

\* The filter loop: every entry that is not "added" is kept, in order.
FilterDrift(allDiffs) == SelectSeq(allDiffs, LAMBDA d : d.ChangeType # "added")

\* The error branch that keeps the fetch error in a missing result too.
ClassifyFetchError_MissingKeepsError(result, errStr) ==
    IF Contains(errStr, "not found")
    THEN [result EXCEPT !.Status = "missing", !.Error = errStr]
    ELSE [result EXCEPT !.Status = "error", !.Error = errStr]

\* The branch taken when the fetch returns an error.
ClassifyFetchError(result, errStr) ==
    IF Contains(errStr, "not found")
    THEN [result EXCEPT !.Status = "missing"]
    ELSE [result EXCEPT !.Status = "error", !.Error = errStr]

\* CompareManifest without the return in the parse-failure branch.
CompareManifest_ParseFailureFallsThrough(resp, namespace, name, kind, storedYAML) ==
    LET parsed == YamlUnmarshal(storedYAML)
        result == DriftResult(namespace, name, kind,
                              IF parsed.err # "" THEN "error" ELSE "", <<>>,
                              IF parsed.err # ""
                              THEN "failed to parse stored manifest: " \o parsed.err ELSE "")
        parse == Call("parse", storedYAML)
        apiVersion == DeclaredAPIVersion(parsed.doc)
        storedMap == cleanForImport(parsed.doc)
        fetched == FetchAndCleanLiveResource(resp, namespace, name, kind, apiVersion)
        diffs == FilterDrift(DiffMaps(storedMap, fetched.live, ""))
    IN  IF fetched.err # ""
        THEN [result |-> ClassifyFetchError(result, fetched.err),
              calls |-> <<parse>> \o fetched.calls]
        ELSE IF Len(diffs) = 0
        THEN [result |-> [result EXCEPT !.Status = "in_sync"],
              calls |-> <<parse>> \o fetched.calls]
        ELSE [result |-> [result EXCEPT !.Status = "drifted", !.Diffs = diffs],
              calls |-> <<parse>> \o fetched.calls]

CompareManifest(resp, namespace, name, kind, storedYAML) ==
    LET result == DriftResult(namespace, name, kind, "", <<>>, "")
        parsed == YamlUnmarshal(storedYAML)
        parse == Call("parse", storedYAML)
        apiVersion == DeclaredAPIVersion(parsed.doc)
        storedMap == cleanForImport(parsed.doc)
        fetched == FetchAndCleanLiveResource(resp, namespace, name, kind, apiVersion)
        diffs == FilterDrift(DiffMaps(storedMap, fetched.live, ""))
    IN  IF parsed.err # ""
        THEN [result |-> [result EXCEPT !.Status = "error",
                                        !.Error = "failed to parse stored manifest: " \o parsed.err],
              calls |-> <<parse>>]
        ELSE IF fetched.err # ""
        THEN [result |-> ClassifyFetchError(result, fetched.err),
              calls |-> <<parse>> \o fetched.calls]
        ELSE IF Len(diffs) = 0
        THEN [result |-> [result EXCEPT !.Status = "in_sync"],
              calls |-> <<parse>> \o fetched.calls]
        ELSE [result |-> [result EXCEPT !.Status = "drifted", !.Diffs = diffs],
              calls |-> <<parse>> \o fetched.calls]

-----------------------------------------------------------------------------
(* diff_resource.go: one comparison, requested by (namespace, app, type)   *)

NoResult == DriftResult("", "", "", "", <<>>, "")

\* The response entry that names the field and the change and leaves the values out.
DiffResponseEntry_NoValues(d) ==
    [k \in {"path", "change_type"} |->
        CASE k = "path" -> Str(d.Path)
          [] k = "change_type" -> Str(d.ChangeType)]

\* One entry of response["diffs"]; nil values are left out.
DiffResponseEntry(d) ==
    [k \in {"path", "change_type"}
           \cup (IF d.Stored.t # "nil" THEN {"stored"} ELSE {})
           \cup (IF d.Live.t # "nil" THEN {"live"} ELSE {}) |->
        CASE k = "path" -> Str(d.Path)
          [] k = "change_type" -> Str(d.ChangeType)
          [] k = "stored" -> d.Stored
          [] k = "live" -> d.Live]

DiffResourceSummary(result) ==
    LET resource == result.Namespace \o "/" \o result.Name \o "/" \o result.Kind
    IN  CASE result.Status = "in_sync" -> resource \o " is in sync with the cluster"
          [] result.Status = "drifted" ->
                resource \o " has " \o ToString(Len(result.Diffs))
                         \o " field(s) that differ from the cluster"
          [] result.Status = "missing" -> resource \o " does not exist in the cluster"
          [] result.Status = "error" ->
                "Error comparing " \o resource \o ": " \o result.Error

DiffResourceResponse(result) ==
    [k \in {"namespace", "name", "kind", "status", "diff_count", "summary"}
           \cup (IF result.Error # "" THEN {"error"} ELSE {})
           \cup (IF Len(result.Diffs) > 0 THEN {"diffs"} ELSE {}) |->
        CASE k = "namespace" -> Str(result.Namespace)
          [] k = "name" -> Str(result.Name)
          [] k = "kind" -> Str(result.Kind)
          [] k = "status" -> Str(result.Status)
          [] k = "diff_count" -> Int64(Len(result.Diffs))
          [] k = "summary" -> Str(DiffResourceSummary(result))
          [] k = "error" -> Str(result.Error)
          [] k = "diffs" ->
                Slice([i \in 1..Len(result.Diffs) |-> Map(DiffResponseEntry(result.Diffs[i]))])]

\* DiffResourceTool.Run for the manifest m, the cluster answering resp.
DiffResourceToolRun(m, resp) ==
    LET read == Call("read", <<m.Namespace, m.App, m.Type>>)
        content == ReadManifest(m)
        cmp == CompareManifest(resp, m.Namespace, m.App, m.Type, content.text)
    IN  IF content.err # ""
        THEN [result |-> NoResult, response |-> [error |-> Str(content.err)], calls |-> <<read>>]
        ELSE [result |-> cmp.result, response |-> DiffResourceResponse(cmp.result),
              calls |-> <<read>> \o cmp.calls]

-----------------------------------------------------------------------------
(* RunDriftScan                                                            *)

NewScanResults(total) ==
    [isNil |-> FALSE, Results |-> <<>>, Total |-> total,
     InSync |-> 0, Drifted |-> 0, Missing |-> 0, Errors |-> 0]

\* The nil *DriftScanResults.
NilScanResults == [NewScanResults(0) EXCEPT !.isNil = TRUE]

Returned(res, err) == [returned |-> TRUE, results |-> res, err |-> err]

NotReturned == [returned |-> FALSE, results |-> NilScanResults, err |-> ""]

\* ScanStart without the len(manifests) == 0 check.
ScanStart_NoEmptyCheck(manifests, err) ==
    IF err # ""
    THEN [pc |-> "returned", results |-> NilScanResults, ret |-> Returned(NilScanResults, err)]
    ELSE [pc |-> "loop", results |-> NewScanResults(Len(manifests)), ret |-> NotReturned]

\* From the call of ListManifests to the first iteration of the loop.
ScanStart(manifests, err) ==
    IF err # ""
    THEN [pc |-> "returned", results |-> NilScanResults, ret |-> Returned(NilScanResults, err)]
    ELSE IF Len(manifests) = 0
    THEN [pc |-> "returned", results |-> NilScanResults, ret |-> Returned(NilScanResults, "")]
    ELSE [pc |-> "loop", results |-> NewScanResults(Len(manifests)), ret |-> NotReturned]

\* CountStatus without the "missing" case.
CountStatus_NoMissingCase(res, status) ==
    CASE status = "in_sync" -> [res EXCEPT !.InSync = @ + 1]
      [] status = "drifted" -> [res EXCEPT !.Drifted = @ + 1]
      [] status = "error"   -> [res EXCEPT !.Errors = @ + 1]
      [] OTHER -> res

\* switch dr.Status
CountStatus(res, status) ==
    CASE status = "in_sync" -> [res EXCEPT !.InSync = @ + 1]
      [] status = "drifted" -> [res EXCEPT !.Drifted = @ + 1]
      [] status = "missing" -> [res EXCEPT !.Missing = @ + 1]
      [] status = "error"   -> [res EXCEPT !.Errors = @ + 1]
      [] OTHER -> res

\* ProgressAndRead reporting the 1-based position instead of the index.
ProgressAndRead_OneBased(progress, i, total, m) ==
    (IF progress
     THEN <<Call("progress", <<i + 1, total, m.Namespace, m.App, m.Type>>)>>
     ELSE <<>>)
    \o <<Call("read", <<m.Namespace, m.App, m.Type>>)>>

\* The calls of one iteration before the classifier is reached.
ProgressAndRead(progress, i, total, m) ==
    (IF progress
     THEN <<Call("progress", <<i, total, m.Namespace, m.App, m.Type>>)>>
     ELSE <<>>)
    \o <<Call("read", <<m.Namespace, m.App, m.Type>>)>>

\* ReadFailure that counts the error but appends no result.
ReadFailure_NoAppend(res, m, err) == [res EXCEPT !.Errors = @ + 1]

\* The iteration taken when ReadManifest fails.
ReadFailure(res, m, err) ==
    [res EXCEPT !.Results = Append(@, DriftResult(m.Namespace, m.App, m.Type, "error", <<>>, err)),
                !.Errors = @ + 1]

\* ScanIteration without the continue after a read failure.
ScanIteration_NoContinue(res, progress, i, total, m, file, resp) ==
    LET content == ReadManifest(file)
        cmp == CompareManifest(resp, m.Namespace, m.App, m.Type, content.text)
        before == ProgressAndRead(progress, i, total, m)
        afterRead == IF content.err # "" THEN ReadFailure(res, m, content.err) ELSE res
    IN  [results |-> CountStatus([afterRead EXCEPT !.Results = Append(@, cmp.result)],
                                 cmp.result.Status),
         calls |-> before \o cmp.calls]

\* One iteration of the loop: manifest info m at index i, file and cluster as given.
ScanIteration(res, progress, i, total, m, file, resp) ==
    LET content == ReadManifest(file)
        cmp == CompareManifest(resp, m.Namespace, m.App, m.Type, content.text)
        before == ProgressAndRead(progress, i, total, m)
    IN  IF content.err # ""
        THEN [results |-> ReadFailure(res, m, content.err), calls |-> before]
        ELSE [results |-> CountStatus([res EXCEPT !.Results = Append(@, cmp.result)],
                                      cmp.result.Status),
              calls |-> before \o cmp.calls]

-----------------------------------------------------------------------------
(* repl: the session state of the plan/approval workflow and the           *)
(* interactive model that reads the user's input and the agent's events    *)

ModePlanning == "planning"

ModeExecuting == "executing"

PlannedAction(tool, parameters, reason) ==
    [Tool |-> tool, Parameters |-> parameters, Reason |-> reason]

Plan(description, actions) == [isNil |-> FALSE, Description |-> description, Actions |-> actions]

\* A nil *Plan.
NilPlan == [Plan("", <<>>) EXCEPT !.isNil = TRUE]

Clarification(context) == [isNil |-> FALSE, Context |-> context]

NilClarification == [Clarification("") EXCEPT !.isNil = TRUE]

NewSessionState ==
    [Mode |-> ModePlanning, PendingPlan |-> NilPlan, PendingClarification |-> NilClarification]

SetPendingPlan(s, plan) == [s EXCEPT !.PendingPlan = plan, !.Mode = ModePlanning]

\* ApprovePlan that switches the mode and leaves the plan pending.
ApprovePlan_KeepsPlan(s) ==
    IF s.PendingPlan.isNil
    THEN [state |-> s, plan |-> NilPlan]
    ELSE [state |-> [s EXCEPT !.Mode = ModeExecuting], plan |-> s.PendingPlan]

\* The session state after the call and the plan it returns.
ApprovePlan(s) ==
    IF s.PendingPlan.isNil
    THEN [state |-> s, plan |-> NilPlan]
    ELSE [state |-> [s EXCEPT !.PendingPlan = NilPlan, !.Mode = ModeExecuting],
          plan |-> s.PendingPlan]

RejectPlan(s) == [s EXCEPT !.PendingPlan = NilPlan, !.Mode = ModePlanning]

HasPendingPlan(s) == ~s.PendingPlan.isNil

Reset(s) == [s EXCEPT !.PendingPlan = NilPlan, !.Mode = ModePlanning]

\* getString: the string under key, "" when there is none.
getString(m, key) == IF key \in DOMAIN m /\ m[key].t = "string" THEN m[key].v ELSE ""

\* One element of args["actions"]; an element that is no map is skipped.
ParseAction(actionRaw) ==
    PlannedAction(getString(actionRaw.v, "tool"),
                  IF IsMapAt(actionRaw.v, "parameters")
                  THEN actionRaw.v["parameters"].v ELSE EmptyMap,
                  getString(actionRaw.v, "reason"))

ParsePlanFromResponse(args) ==
    IF ~("actions" \in DOMAIN args /\ args["actions"].t = "slice")
    THEN NilPlan
    ELSE LET maps == SelectSeq(args["actions"].v, LAMBDA a : a.t = "map")
         IN  Plan(getString(args, "description"), [i \in 1..Len(maps) |-> ParseAction(maps[i])])

ParseClarificationFromResponse(args) ==
    IF ~("questions" \in DOMAIN args /\ args["questions"].t = "slice")
    THEN NilClarification
    ELSE Clarification(getString(args, "context"))

RECURSIVE FormatParameters(_, _)
\* fmt.Sprintf("%s=%v ", k, v) for each parameter the range yields.
FormatParameters(parameters, keys) ==
    IF keys = <<>> THEN ""
    ELSE Head(keys) \o "=" \o parameters[Head(keys)].v \o " "
             \o FormatParameters(parameters, Tail(keys))

RECURSIVE FormatActions(_, _)
FormatActions(actions, i) ==
    IF i > Len(actions) THEN ""
    ELSE ToString(i) \o ". Call " \o actions[i].Tool \o " with parameters: "
             \o FormatParameters(actions[i].Parameters, RangeKeys(DOMAIN actions[i].Parameters))
             \o "(Reason: " \o actions[i].Reason \o ")\n"
             \o FormatActions(actions, i + 1)

FormatExecutionPrompt(plan) ==
    "The user has APPROVED your plan. Execute the following actions now:\n\n"
        \o "Plan: " \o plan.Description \o "\n\nActions to execute:\n"
        \o FormatActions(plan.Actions, 1)
        \o "\nExecute these actions in order. Do not call propose_plan again - proceed directly with the mutating tools."

Whitespace == {" ", "\t", "\n", "\r"}

RECURSIVE TrimLeft(_)
TrimLeft(s) ==
    IF s # "" /\ SubSeq(s, 1, 1) \in Whitespace THEN TrimLeft(SubSeq(s, 2, Len(s))) ELSE s

RECURSIVE TrimRight(_)
TrimRight(s) ==
    IF s # "" /\ SubSeq(s, Len(s), Len(s)) \in Whitespace
    THEN TrimRight(SubSeq(s, 1, Len(s) - 1)) ELSE s

TrimSpace(s) == TrimRight(TrimLeft(s))

\* Messages on the event channel.
AgentEvent(call, args) == [kind |-> "event", call |-> call, args |-> args]

AgentError == [kind |-> "err", call |-> "", args |-> EmptyMap]

AgentDone == [kind |-> "done", call |-> "", args |-> EmptyMap]

\* The model as newModel builds it.  prompts are the prompts the agent was
\* started with, running the agent goroutines that have not finished, printed
\* the lines the last handler wrote above the input area.
newModel ==
    [state |-> NewSessionState, textarea |-> "", agentBusy |-> FALSE, quitting |-> FALSE,
     statusText |-> "", eventCh |-> <<>>, prompts |-> <<>>, running |-> 0, emitted |-> 0,
     printed |-> <<>>]

startAgent(m, prompt) ==
    [m EXCEPT !.agentBusy = TRUE, !.statusText = "Thinking...",
              !.prompts = Append(@, prompt), !.running = @ + 1]

\* handleSubmit for the text in the input area.
handleSubmit(m) ==
    LET input == TrimSpace(m.textarea)
        echoed == [m EXCEPT !.textarea = "", !.printed = <<"> " \o input>>]
        command == ToLower(input)
        approved == ApprovePlan(m.state)
    IN  IF input = "" THEN m
        ELSE IF input = "exit" \/ input = "quit"
        THEN [echoed EXCEPT !.printed = Append(@, "Goodbye!"), !.quitting = TRUE]
        ELSE IF command \in {"yes", "y", "/approve"}
        THEN IF HasPendingPlan(m.state)
             THEN startAgent([echoed EXCEPT !.state = approved.state,
                                            !.printed = Append(@, "Plan approved. Executing...")],
                             FormatExecutionPrompt(approved.plan))
             ELSE [echoed EXCEPT !.printed = Append(@, "No pending plan to approve.")]
        ELSE IF command \in {"no", "n", "/reject"}
        THEN IF HasPendingPlan(m.state)
             THEN [echoed EXCEPT !.state = RejectPlan(m.state),
                                 !.printed = Append(@, "Plan rejected.")]
             ELSE [echoed EXCEPT !.printed = Append(@, "No pending plan to reject.")]
        ELSE IF command = "/plan"
        THEN IF HasPendingPlan(m.state)
             THEN [echoed EXCEPT !.printed = Append(@, "Plan: " \o m.state.PendingPlan.Description)]
             ELSE [echoed EXCEPT !.printed = Append(@, "No pending plan.")]
        ELSE IF HasPendingPlan(m.state)
        THEN [echoed EXCEPT !.printed = Append(@,
                  "You have a pending plan. Type 'yes' to approve, 'no' to reject, or '/plan' to review.")]
        ELSE startAgent(echoed, input)

\* handleAgentEvent for the message at the head of the channel.
handleAgentEvent(m, msg) ==
    LET read == [m EXCEPT !.eventCh = Tail(@)]
        plan == ParsePlanFromResponse(msg.args)
        shown == (IF read.state.PendingClarification.isNil THEN <<>>
                  ELSE <<"Clarification: " \o read.state.PendingClarification.Context>>)
                 \o (IF HasPendingPlan(read.state)
                     THEN <<"Plan: " \o read.state.PendingPlan.Description>> ELSE <<>>)
        cleared == [read.state EXCEPT !.PendingClarification = NilClarification]
    IN  IF msg.kind = "err"
        THEN [read EXCEPT !.agentBusy = FALSE, !.printed = <<"Error: agent run failed">>]
        ELSE IF msg.kind = "done"
        THEN [read EXCEPT !.agentBusy = FALSE, !.printed = shown,
                          !.state = IF cleared.Mode = ModeExecuting /\ ~HasPendingPlan(cleared)
                                    THEN Reset(cleared) ELSE cleared]
        ELSE IF msg.call = "propose_plan" /\ ~plan.isNil
        THEN [read EXCEPT !.state = SetPendingPlan(@, plan), !.statusText = ""]
        ELSE IF msg.call = "ask_clarification" /\ ~ParseClarificationFromResponse(msg.args).isNil
        THEN [read EXCEPT !.state.PendingClarification = ParseClarificationFromResponse(msg.args),
                          !.statusText = ""]
        ELSE [read EXCEPT !.statusText = ""]

-----------------------------------------------------------------------------

(* The state machine                                                       *)

\* Tags the calls of one operation with the loop index they were issued at.
At(cs, i) == [k \in 1..Len(cs) |-> [op |-> cs[k].op, args |-> cs[k].args, i |-> i]]

\* What the manifest store holds after serving the calls cs: ListManifests and
\* ReadManifest leave every file as it is, SaveManifest replaces a file's content.
RECURSIVE StoreAfter(_, _)
StoreAfter(st, cs) ==
    IF cs = <<>> THEN st
    ELSE LET c == Head(cs)
             next == IF c.op = "save"
                     THEN [st EXCEPT ![c.i + 1].Content = c.args, ![c.i + 1].File = "present"]
                     ELSE st
         IN  StoreAfter(next, Tail(cs))

\* What the cluster holds after serving the calls cs: Get leaves the object as
\* it is, Update replaces it.
RECURSIVE ClusterAfter(_, _)
ClusterAfter(cl, cs) ==
    IF cs = <<>> THEN cl
    ELSE LET c == Head(cs)
             next == IF c.op = "update" THEN [cl EXCEPT ![c.i + 1] = Got(c.args)] ELSE cl
         IN  ClusterAfter(next, Tail(cs))

NoToolResponse == [result |-> NoResult, response |-> EmptyMap]

MaxManifests == 2

Namespaces == {"prod"}

Apps == {"myapp"}

FileStates == {"present", "absent", "unreadable"}

\* The types a single comparison is asked for: canonical names, an alias, a
\* capitalised name, a cluster-scoped kind and kinds the table does not know.
ToolTypes == {"service", "svc", "Service", "namespace", "widget", "widget not found"}

ToolTexts ==
    {TextService, TextServiceTwoPorts, TextServiceNoAPIVersion, TextServiceImported,
     TextServiceFromCluster, TextServiceGrouped, TextEmpty, TextTruncated, TextSequence}

ToolAnswers == {Got(obj) : obj \in LiveObjects} \cup GetFailures

ToolFiles ==
    {StoredFile(n, a, t, c, "present") : n \in Namespaces, a \in Apps, t \in ToolTypes, c \in ToolTexts}
    \cup {StoredFile(n, a, t, TextService, f) :
              n \in Namespaces, a \in Apps, t \in {"service"}, f \in FileStates \ {"present"}}

\* The files of a scanned store; the listing is in the order of the walk.
ScanTypes == {"service", "svc", "widget"}

ScanTexts == {TextService, TextServiceNoAPIVersion, TextTruncated}

ScanAnswers == {Got(LiveSame), Got(LiveChangedPort), ErrNotFound, ErrForbidden}

ScanFiles ==
    {StoredFile(n, a, t, c, "present") : n \in Namespaces, a \in Apps, t \in ScanTypes, c \in ScanTexts}
    \cup {StoredFile(n, a, t, TextService, "absent") : n \in Namespaces, a \in Apps, t \in ScanTypes}

\* filepath.Walk visits the entries of a directory in lexical order.
WalkOrdered(st) ==
    \A i \in 1..Len(st) : \A j \in 1..Len(st) :
        i < j => StrLess(RelPath(st[i]), RelPath(st[j]))

Idle ==
    /\ idx = 0
    /\ results = NilScanResults
    /\ ret = NotReturned
    /\ calls = <<>>
    /\ toolResp = NoToolResponse
    /\ ctx = "live"
    /\ repl = newModel

NoArg == [stored |-> Nil, live |-> Nil, prefix |-> ""]

NoOut == [diffs |-> <<>>, once |-> Nil, twice |-> Nil]

\* No direct call of the differencer or the canonicalizer is under way.
NoDirectCall ==
    /\ arg = NoArg
    /\ out = NoOut

\* What a get under the context c returns: a cancelled context fails the
\* request before the cluster answers.
GetUnder(c, resp) == IF c = "cancelled" THEN ErrCanceled ELSE resp

\* A single comparison through diff_resource.
Init ==
    /\ store \in {<<f>> : f \in ToolFiles}
    /\ cluster \in {<<r>> : r \in ToolAnswers}
    /\ listErr = ""
    /\ hasProgress = FALSE
    /\ mapOrder \in MapOrders
    /\ pc = "tool"
    /\ Idle
    /\ NoDirectCall

DiffResource ==
    /\ pc = "tool"
    /\ \E run \in {DiffResourceToolRun(store[1], cluster[1])} :
          \E issued \in {At(run.calls, 0)} :
              /\ toolResp' = [result |-> run.result, response |-> run.response]
              /\ calls' = issued
              /\ store' = StoreAfter(store, issued)
              /\ cluster' = ClusterAfter(cluster, issued)
    /\ pc' = "done"
    /\ UNCHANGED <<listErr, hasProgress, idx, results, ret, mapOrder, arg, out, ctx, repl>>

Next == DiffResource

Spec == Init /\ [][Next]_vars

\* A scan of the whole store at start-up.  A walk that fails lists nothing.
InitScan ==
    /\ \/ /\ listErr = ""
          /\ \E n \in 0..MaxManifests :
                /\ store \in {st \in [1..n -> ScanFiles] : WalkOrdered(st)}
                /\ cluster \in [1..n -> ScanAnswers]
       \/ /\ listErr = "open /deployments: permission denied"
          /\ store = <<>>
          /\ cluster = <<>>
    /\ hasProgress \in BOOLEAN
    /\ mapOrder \in MapOrders
    /\ pc = "scan"
    /\ Idle
    /\ NoDirectCall

RunDriftScanStart ==
    /\ pc = "scan"
    /\ \E listed \in {ListManifests(store, listErr, "", "")} :
          \E start \in {ScanStart(listed.manifests, listed.err)} :
              /\ pc' = start.pc
              /\ results' = start.results
              /\ ret' = start.ret
    /\ \E issued \in {At(<<Call("list", <<"", "">>)>>, -1)} :
          /\ calls' = issued
          /\ store' = StoreAfter(store, issued)
          /\ cluster' = ClusterAfter(cluster, issued)
    /\ idx' = 0
    /\ UNCHANGED <<listErr, hasProgress, toolResp, mapOrder, arg, out, ctx, repl>>

RunDriftScanIterate ==
    /\ pc = "loop"
    /\ idx < Len(store)
    /\ \E manifests \in {ListManifests(store, listErr, "", "").manifests} :
          \E it \in {ScanIteration(results, hasProgress, idx, Len(manifests),
                                    manifests[idx + 1], store[idx + 1],
                                    GetUnder(ctx, cluster[idx + 1]))} :
              \E issued \in {At(it.calls, idx)} :
                  /\ results' = it.results
                  /\ calls' = calls \o issued
                  /\ store' = StoreAfter(store, issued)
                  /\ cluster' = ClusterAfter(cluster, issued)
    /\ idx' = idx + 1
    /\ UNCHANGED <<listErr, hasProgress, pc, ret, toolResp, mapOrder, arg, out, ctx, repl>>

RunDriftScanReturn ==
    /\ pc = "loop"
    /\ idx = Len(store)
    /\ ret' = Returned(results, "")
    /\ pc' = "returned"
    /\ UNCHANGED <<store, listErr, cluster, hasProgress, idx, results, calls, toolResp,
                   mapOrder, arg, out, ctx, repl>>

NextScan == RunDriftScanStart \/ RunDriftScanIterate \/ RunDriftScanReturn

SpecScan == InitScan /\ [][NextScan]_vars

\* A scan whose caller may cancel the context it gave.
CancelTexts == {TextService}

CancelAnswers == {Got(LiveSame), ErrNotFound}

CancelFiles ==
    {StoredFile(n, a, t, c, f) :
         n \in Namespaces, a \in Apps, t \in ScanTypes, c \in CancelTexts, f \in {"present", "absent"}}

InitCancel ==
    /\ listErr = ""
    /\ \E n \in 0..MaxManifests :
          /\ store \in {st \in [1..n -> CancelFiles] : WalkOrdered(st)}
          /\ cluster \in [1..n -> CancelAnswers]
    /\ hasProgress \in BOOLEAN
    /\ mapOrder = "ascending"
    /\ pc = "scan"
    /\ Idle
    /\ NoDirectCall

\* The caller cancels the context while the scan is in its loop, between two
\* iterations or before the first.
CancelContext ==
    /\ pc = "loop"
    /\ ctx = "live"
    /\ ctx' = "cancelled"
    /\ UNCHANGED <<store, listErr, cluster, hasProgress, pc, idx, results, ret, calls, toolResp,
                   mapOrder, arg, out, repl>>

NextCancel == CancelContext \/ RunDriftScanStart \/ RunDriftScanIterate \/ RunDriftScanReturn

SpecCancel == InitCancel /\ [][NextCancel]_vars

\* The interactive session.  What the user types, and what the agent calls
\* while it runs: two plans, a propose_plan without actions, a clarification
\* request and a read-only tool.
MaxPrompts == 2

MaxEvents == 2

Inputs ==
    {"yes", " Y ", "/Approve", "no", "N", "/reject", "/plan", "exit", "deploy nginx", "  "}

ActionArgs(tool, name, reason) ==
    Map([tool |-> Str(tool), parameters |-> Map([name |-> Str(name)]), reason |-> Str(reason)])

ArgsNamespace ==
    [description |-> Str("Create namespace demo"),
     actions |-> Slice(<<ActionArgs("create_namespace", "demo", "requested by the user")>>)]

ArgsDeploy ==
    [description |-> Str("Deploy nginx"),
     actions |-> Slice(<<ActionArgs("create_deployment", "nginx", "run the image"),
                         ActionArgs("create_service", "nginx", "expose it")>>)]

ArgsNoActions == [description |-> Str("Create namespace demo")]

ArgsClarification ==
    [context |-> Str("Which namespace?"), questions |-> Slice(<<Map([question |-> Str("Namespace?")])>>)]

AgentEvents ==
    {AgentEvent("propose_plan", ArgsNamespace), AgentEvent("propose_plan", ArgsDeploy),
     AgentEvent("propose_plan", ArgsNoActions), AgentEvent("ask_clarification", ArgsClarification),
     AgentEvent("list_pods", EmptyMap)}

InitRepl ==
    /\ store = <<>>
    /\ cluster = <<>>
    /\ listErr = ""
    /\ hasProgress = FALSE
    /\ mapOrder = "ascending"
    /\ pc = "repl"
    /\ Idle
    /\ NoDirectCall

\* Update for the keys that edit the input area; keys are dropped while the agent is busy.
TypeInput ==
    /\ pc = "repl"
    /\ ~repl.quitting
    /\ ~repl.agentBusy
    /\ \E value \in Inputs \ {repl.textarea} : repl' = [repl EXCEPT !.textarea = value]
    /\ UNCHANGED <<store, listErr, cluster, hasProgress, pc, idx, results, ret, calls, toolResp,
                   mapOrder, arg, out, ctx>>

\* Update for the enter key.
PressEnter ==
    /\ pc = "repl"
    /\ ~repl.quitting
    /\ ~repl.agentBusy
    /\ Len(repl.prompts) < MaxPrompts
    /\ \E next \in {handleSubmit(repl)} : repl' = next
    /\ UNCHANGED <<store, listErr, cluster, hasProgress, pc, idx, results, ret, calls, toolResp,
                   mapOrder, arg, out, ctx>>

\* Update for ctrl+c: cancels the running agent, or quits.
PressCtrlC ==
    /\ pc = "repl"
    /\ ~repl.quitting
    /\ repl' = IF repl.agentBusy
               THEN [repl EXCEPT !.statusText = "Cancelling..."]
               ELSE [repl EXCEPT !.quitting = TRUE]
    /\ UNCHANGED <<store, listErr, cluster, hasProgress, pc, idx, results, ret, calls, toolResp,
                   mapOrder, arg, out, ctx>>

\* A running agent goroutine sends an event.
AgentEmits ==
    /\ pc = "repl"
    /\ ~repl.quitting
    /\ repl.running > 0
    /\ repl.emitted < MaxEvents
    /\ \E e \in AgentEvents :
          repl' = [repl EXCEPT !.eventCh = Append(@, e), !.emitted = @ + 1]
    /\ UNCHANGED <<store, listErr, cluster, hasProgress, pc, idx, results, ret, calls, toolResp,
                   mapOrder, arg, out, ctx>>

\* A running agent goroutine ends, with an error or without: the deferred
\* done message follows in either case.
AgentReturns ==
    /\ pc = "repl"
    /\ ~repl.quitting
    /\ repl.running > 0
    /\ \E failed \in BOOLEAN :
          repl' = [repl EXCEPT !.eventCh = @ \o (IF failed THEN <<AgentError, AgentDone>>
                                                           ELSE <<AgentDone>>),
                               !.running = @ - 1]
    /\ UNCHANGED <<store, listErr, cluster, hasProgress, pc, idx, results, ret, calls, toolResp,
                   mapOrder, arg, out, ctx>>

\* Update for an agentEventMsg: waitForAgent is outstanding exactly while the agent is busy.
ReceiveAgentEvent ==
    /\ pc = "repl"
    /\ ~repl.quitting
    /\ repl.agentBusy
    /\ repl.eventCh # <<>>
    /\ \E next \in {handleAgentEvent(repl, Head(repl.eventCh))} : repl' = next
    /\ UNCHANGED <<store, listErr, cluster, hasProgress, pc, idx, results, ret, calls, toolResp,
                   mapOrder, arg, out, ctx>>

NextRepl ==
    \/ TypeInput
    \/ PressEnter
    \/ PressCtrlC
    \/ AgentEmits
    \/ AgentReturns
    \/ ReceiveAgentEvent

SpecRepl == InitRepl /\ [][NextRepl]_vars

\* The engine as a whole: a single comparison or a scan.
InitEngine == Init \/ InitScan

NextEngine == DiffResource \/ RunDriftScanStart \/ RunDriftScanIterate \/ RunDriftScanReturn

SpecEngine == InitEngine /\ [][NextEngine]_vars

-----------------------------------------------------------------------------
(* Direct calls of DiffMaps, diffValues and cleanForImport                 *)

\* The longest list among the arguments.
MaxLen == 2

Scalars == {Str("nginx"), Str("redis"), Bool(TRUE), Nil, Int64(80), Float(80), Float(81)}

\* The number 80 in other Go types, and the integers around 2^53.
Numbers ==
    {Number(type, Small(80)) : type \in {"int", "int16", "uint32", "float32"}}
    \cup {Number("int64", Above2to53(n)) : n \in {0, 1, 2, 3}}
    \cup {Number("float64", Above2to53(n)) : n \in {0, 2}}

Container(image) == Map([image |-> Str(image)])

ListElems == {Str("nginx"), Container("nginx"), Container("redis")}

Lists == {Slice(s) : s \in UNION {[1..n -> ListElems] : n \in 0..MaxLen}}

FlatMaps ==
    {Map(m) : m \in UNION {[K -> {Str("nginx"), Int64(80), Float(80)}] : K \in SUBSET {"image", "port"}}}

PodSpec(containers) ==
    Map([spec |-> Map([template |-> Map([spec |-> Map([containers |-> Slice(containers)])])])])

NestedMaps ==
    {PodSpec(<<>>), PodSpec(<<Container("nginx")>>), PodSpec(<<Container("redis")>>),
     PodSpec(<<Container("nginx"), Container("redis")>>),
     Map([spec |-> Str("nginx")]),
     Map([spec |-> Map([template |-> Slice(<<Str("nginx")>>)])]),
     Map([spec |-> Map([replicas |-> Int64(80)]), metadata |-> Map([name |-> Str("nginx")])]),
     Map([spec |-> Map([replicas |-> Float(81)]), kind |-> Str("nginx")])}

DiffValues == Scalars \cup Numbers \cup Lists \cup FlatMaps \cup NestedMaps

Prefixes == {"", "spec"}

DiffArgs == [stored : DiffValues, live : DiffValues, prefix : Prefixes]

\* Annotation keys: one per rule of shouldRemoveAnnotation and ones no rule matches.
AnnotationPool ==
    {"kubectl.kubernetes.io/restartedAt", "deployment.kubernetes.io/revision",
     "kubernetes.io/change-cause", "kubernetes.io/change-cause-note",
     "example.com/kubectl.kubernetes.io/owner"}

AnnotationMaps == UNION {[K -> {Str("nginx")}] : K \in SUBSET AnnotationPool}

\* What a document has under metadata.annotations: nothing, a map, or a string.
AnnotationStates == {<<>>} \cup {[annotations |-> Map(a)] : a \in AnnotationMaps}
                           \cup {[annotations |-> Str("nginx")]}

Merge(m1, m2) == [k \in (DOMAIN m1) \cup (DOMAIN m2) |-> IF k \in DOMAIN m2 THEN m2[k] ELSE m1[k]]

\* The fields a cluster adds to an object.
ClusterMetadata ==
    [uid |-> Str("6f1c"), resourceVersion |-> Str("811"), generation |-> Int64(3),
     creationTimestamp |-> Str("2024-05-01T10:00:00Z"),
     managedFields |-> Slice(<<Map([manager |-> Str("kubectl")])>>),
     selfLink |-> Str("/api/v1/namespaces/prod/services/myapp")]

ClusterSpec == [clusterIP |-> Str("10.0.0.7"), clusterIPs |-> Slice(<<Str("10.0.0.7")>>)]

ClusterStatus == [status |-> Map([loadBalancer |-> Map(EmptyMap)])]

Document(annotations, fromCluster) ==
    LET metadata == Merge(Merge([name |-> Str("myapp")], annotations),
                          IF fromCluster THEN ClusterMetadata ELSE EmptyMap)
        spec == Merge([ports |-> Slice(<<Map([port |-> Float(80)])>>)],
                      IF fromCluster THEN ClusterSpec ELSE EmptyMap)
    IN  Merge([kind |-> Str("Service"), metadata |-> Map(metadata), spec |-> Map(spec)],
              IF fromCluster THEN ClusterStatus ELSE EmptyMap)

CleanDocs ==
    {Document(a, c) : a \in AnnotationStates, c \in BOOLEAN}
    \cup {[kind |-> Str("Service")], [metadata |-> Str("myapp"), spec |-> Nil, status |-> Nil]}

CleanArgs == {[stored |-> Map(d), live |-> Map(d), prefix |-> ""] : d \in CleanDocs}

InitDiff ==
    /\ arg \in DiffArgs \cup CleanArgs
    /\ mapOrder \in MapOrders
    /\ out = NoOut
    /\ pc = "call"
    /\ store = <<>>
    /\ cluster = <<>>
    /\ listErr = ""
    /\ hasProgress = FALSE
    /\ Idle

BothMaps == arg.stored.t = "map" /\ arg.live.t = "map"

CallDiffMaps ==
    /\ pc = "call"
    /\ BothMaps
    /\ \E diffs \in {DiffMaps(arg.stored.v, arg.live.v, arg.prefix)} :
          out' = [NoOut EXCEPT !.diffs = diffs]
    /\ pc' = "DiffMaps"
    /\ UNCHANGED <<store, listErr, cluster, hasProgress, idx, results, ret, calls, toolResp,
                   mapOrder, arg, ctx, repl>>

CallDiffValues ==
    /\ pc = "call"
    /\ \E diffs \in {diffValues(arg.stored, arg.live, arg.prefix)} :
          out' = [NoOut EXCEPT !.diffs = diffs]
    /\ pc' = "diffValues"
    /\ UNCHANGED <<store, listErr, cluster, hasProgress, idx, results, ret, calls, toolResp,
                   mapOrder, arg, ctx, repl>>

\* cleanForImport on each argument, then once more on the stored one, and the
\* comparison of the two cleaned documents.
CallCleanForImport ==
    /\ pc = "call"
    /\ BothMaps
    /\ \E once \in {cleanForImport(arg.stored.v)} :
          \E twice \in {cleanForImport(once)} :
              \E diffs \in {DiffMaps(once, cleanForImport(arg.live.v), "")} :
                  out' = [diffs |-> diffs, once |-> Map(once), twice |-> Map(twice)]
    /\ pc' = "cleanForImport"
    /\ UNCHANGED <<store, listErr, cluster, hasProgress, idx, results, ret, calls, toolResp,
                   mapOrder, arg, ctx, repl>>

NextDiff == CallDiffMaps \/ CallDiffValues \/ CallCleanForImport

SpecDiff == InitDiff /\ [][NextDiff]_vars

-----------------------------------------------------------------------------
(* Direct calls of the resource type resolver                              *)

ToUpperChar(c) ==
    IF \E i \in 1..Len(LowerLetters) : SubSeq(LowerLetters, i, i) = c
    THEN LET i == CHOOSE j \in 1..Len(LowerLetters) : SubSeq(LowerLetters, j, j) = c
         IN  SubSeq(UpperLetters, i, i)
    ELSE c

RECURSIVE ToUpper(_)
ToUpper(s) == IF s = "" THEN "" ELSE ToUpperChar(SubSeq(s, 1, 1)) \o ToUpper(SubSeq(s, 2, Len(s)))

\* The letter-case spellings a kind is asked for in: as the tables write it,
\* all capitals, a leading capital, and capitals after a small first letter.
Spellings(name) ==
    {name, ToUpper(name),
     ToUpper(SubSeq(name, 1, 1)) \o SubSeq(name, 2, Len(name)),
     SubSeq(name, 1, 1) \o ToUpper(SubSeq(name, 2, Len(name)))}

\* Every canonical kind and every alias of the tables.
KnownNames == (DOMAIN CommonGVRs) \cup (DOMAIN KindAliases)

\* Kinds neither table holds, one for each ending the pluralization tells apart.
UnknownNames == {"widget", "box", "church", "dish", "gas", "proxy"}

APIVersions == {"", "v1", "apps/v1", "example.com/v1beta1"}

\* A kind as the caller spells it (of is the lower-case name it is a spelling of)
\* and the API version that goes with it.
ResolveArgs ==
    UNION {{[kind |-> k, of |-> n, apiVersion |-> v] : k \in Spellings(n), v \in APIVersions} :
               n \in KnownNames \cup UnknownNames}

InitResolve ==
    /\ arg \in ResolveArgs
    /\ out = NoOut
    /\ mapOrder = "ascending"
    /\ pc = "call"
    /\ store = <<>>
    /\ cluster = <<Got(LiveSame)>>
    /\ listErr = ""
    /\ hasProgress = FALSE
    /\ Idle

\* NormalizeKindName(kind), and NormalizeKindName of what it returned.
CallNormalizeKindName ==
    /\ pc = "call"
    /\ \E normalized \in {NormalizeKindName(arg.kind)} :
          out' = [normalized |-> normalized, again |-> NormalizeKindName(normalized)]
    /\ pc' = "NormalizeKindName"
    /\ UNCHANGED <<store, listErr, cluster, hasProgress, idx, results, ret, calls, toolResp,
                   mapOrder, arg, ctx, repl>>

CallLookupGVR ==
    /\ pc = "call"
    /\ out' = LookupGVR(arg.kind)
    /\ pc' = "LookupGVR"
    /\ UNCHANGED <<store, listErr, cluster, hasProgress, idx, results, ret, calls, toolResp,
                   mapOrder, arg, ctx, repl>>

CallIsNamespaced ==
    /\ pc = "call"
    /\ out' = [namespaced |-> IsNamespaced(arg.kind)]
    /\ pc' = "IsNamespaced"
    /\ UNCHANGED <<store, listErr, cluster, hasProgress, idx, results, ret, calls, toolResp,
                   mapOrder, arg, ctx, repl>>

CallBuildGVRFromKindAndAPIVersion ==
    /\ pc = "call"
    /\ out' = BuildGVRFromKindAndAPIVersion(arg.kind, arg.apiVersion)
    /\ pc' = "BuildGVRFromKindAndAPIVersion"
    /\ UNCHANGED <<store, listErr, cluster, hasProgress, idx, results, ret, calls, toolResp,
                   mapOrder, arg, ctx, repl>>

\* The live fetch of prod/myapp for the kind and API version.
CallFetchAndCleanLiveResource ==
    /\ pc = "call"
    /\ \E run \in {FetchAndCleanLiveResource(cluster[1], "prod", "myapp", arg.kind, arg.apiVersion)} :
          \E issued \in {At(run.calls, 0)} :
              /\ out' = [live |-> run.live, err |-> run.err]
              /\ calls' = issued
              /\ cluster' = ClusterAfter(cluster, issued)
    /\ pc' = "FetchAndCleanLiveResource"
    /\ UNCHANGED <<store, listErr, hasProgress, idx, results, ret, toolResp, mapOrder, arg, ctx, repl>>

NextResolve ==
    \/ CallNormalizeKindName
    \/ CallLookupGVR
    \/ CallIsNamespaced
    \/ CallBuildGVRFromKindAndAPIVersion
    \/ CallFetchAndCleanLiveResource

SpecResolve == InitResolve /\ [][NextResolve]_vars

-----------------------------------------------------------------------------

(* Properties of a single comparison (Spec)                                *)

\* The comparison ran: the manifest was read and CompareManifest returned.
Compared == pc = "done" /\ ReadManifest(store[1]).err = ""

StoredParse == YamlUnmarshal(store[1].Content)

Outcome == toolResp.result

Issued(op) == \E k \in 1..Len(calls) : calls[k].op = op

FetchSucceeded == Issued("get") /\ cluster[1].err = ""

\* The type is not in the known-kinds table after alias normalization.
UnknownKind(type) == NormalizeKindName(type) \notin DOMAIN CommonGVRs

\* The live value is the stored value plus live-only fields and trailing
\* list elements, numbers compared by value.
RECURSIVE LiveExtends(_, _)
LiveExtends(stored, live) ==
    IF stored.t = "map"
    THEN /\ live.t = "map"
         /\ DOMAIN stored.v \subseteq DOMAIN live.v
         /\ \A k \in DOMAIN stored.v : LiveExtends(stored.v[k], live.v[k])
    ELSE IF stored.t = "slice"
    THEN /\ live.t = "slice"
         /\ Len(stored.v) <= Len(live.v)
         /\ \A i \in 1..Len(stored.v) : LiveExtends(stored.v[i], live.v[i])
    ELSE /\ live.t \notin {"map", "slice"}
         /\ \/ (stored.t = live.t /\ stored.v = live.v)
            \/ (stored.t \in {"int64", "float64"} /\ live.t \in {"int64", "float64"}
                /\ stored.v = live.v)

\* C1: when the stored manifest parses and the live fetch succeeds, the status
\* is in_sync exactly when the diff of the canonicalized documents has no
\* changed and no removed entry; otherwise it is drifted and Diffs holds those
\* entries in their order; a live document that only adds fields or trailing
\* list elements is in_sync.
C1_InSyncIffNoChangedOrRemoved ==
    (Compared /\ StoredParse.err = "" /\ FetchSucceeded) =>
        LET stored == cleanForImport(StoredParse.doc)
            live == cleanForImport(cluster[1].obj)
            drift == SelectSeq(DiffMaps(stored, live, ""),
                               LAMBDA d : d.ChangeType \in {"changed", "removed"})
        IN  /\ Outcome.Status = "in_sync" <=> drift = <<>>
            /\ drift # <<>> => (Outcome.Status = "drifted" /\ Outcome.Diffs = drift)
            /\ LiveExtends(Map(stored), Map(live)) => Outcome.Status = "in_sync"

\* A drifted result whose full diff also held added entries, which were dropped.
C1_Witness ==
    /\ Compared /\ StoredParse.err = "" /\ FetchSucceeded
    /\ Outcome.Status = "drifted"
    /\ \E k \in 1..Len(Outcome.Diffs) : Outcome.Diffs[k].ChangeType = "removed"
    /\ Len(Outcome.Diffs) <
           Len(DiffMaps(cleanForImport(StoredParse.doc), cleanForImport(cluster[1].obj), ""))

\* C2: the status is missing if and only if the live fetch was issued and
\* reported that the resource does not exist.
C2_MissingIffResourceNotFound ==
    Compared =>
        (Outcome.Status = "missing"
            <=> (Issued("get") /\ cluster[1].cause = "ResourceNotFound"))

\* C3: a fetch failure other than not-found gives status error with the
\* message of the fetch error and no diffs; status error arises only from
\* a parse failure or such a fetch failure.
C3_OtherFetchFailureIsError ==
    Compared =>
        LET fetchFailed == \/ (Issued("resolve") /\ ~Issued("get"))
                           \/ (Issued("get") /\ cluster[1].err # ""
                               /\ cluster[1].cause # "ResourceNotFound")
        IN  /\ fetchFailed =>
                  /\ Outcome.Status = "error"
                  /\ Outcome.Diffs = <<>>
                  /\ Issued("get") => Outcome.Error = cluster[1].err
            /\ Outcome.Status = "error" => (StoredParse.err # "" \/ fetchFailed)

\* C4: when the stored text fails to parse, the status is error with a
\* non-empty message and no diffs, and neither the resolver nor the cluster
\* is called.
C4_ParseFailureIsErrorWithoutFetch ==
    (Compared /\ StoredParse.err # "") =>
        /\ Outcome.Status = "error"
        /\ Outcome.Error # ""
        /\ Outcome.Diffs = <<>>
        /\ ~Issued("resolve")
        /\ ~Issued("get")

\* A comparison of a text that does not parse, asked of a cluster that holds the object.
C4_Witness ==
    /\ Compared
    /\ StoredParse.err # ""
    /\ cluster[1].err = ""
    /\ Outcome.Status = "error"

\* C10: when the kind is unknown to the table and the stored document declares
\* no API version, no get is issued and the status is error with a message
\* that names the kind.
C10_UnknownKindIsErrorNamingKind ==
    (/\ Compared
     /\ StoredParse.err = ""
     /\ UnknownKind(store[1].Type)
     /\ DeclaredAPIVersion(StoredParse.doc) = "") =>
        /\ ~Issued("get")
        /\ Outcome.Status = "error"
        /\ Contains(Outcome.Error, store[1].Type)

-----------------------------------------------------------------------------
(* Properties of a scan (SpecScan)                                         *)

Processed == Len(results.Results)

CountOf(rs, status) == Cardinality({k \in 1..Len(rs) : rs[k].Status = status})

ScanReturnedResults == ret.returned /\ ~ret.results.isNil

\* What the manifest at position k (1-based) is classified as on its own.
OwnResult(k) ==
    LET m == store[k]
        content == ReadManifest(m)
    IN  IF content.err # ""
        THEN DriftResult(m.Namespace, m.App, m.Type, "error", <<>>, content.err)
        ELSE DiffResourceToolRun(m, cluster[k]).result

SameInputs(j, k) ==
    /\ store[j].Content = store[k].Content
    /\ store[j].File = store[k].File
    /\ NormalizeKindName(store[j].Type) = NormalizeKindName(store[k].Type)
    /\ cluster[j] = cluster[k]

\* C5: a returned scan result has Total = N = len(Results), every counter
\* equals the number of results with its status, and the counters sum to Total.
C5_CountersMatchResults ==
    ScanReturnedResults =>
        LET r == ret.results
        IN  /\ r.Total = Len(store)
            /\ Len(r.Results) = r.Total
            /\ r.InSync = CountOf(r.Results, "in_sync")
            /\ r.Drifted = CountOf(r.Results, "drifted")
            /\ r.Missing = CountOf(r.Results, "missing")
            /\ r.Errors = CountOf(r.Results, "error")
            /\ r.InSync + r.Drifted + r.Missing + r.Errors = r.Total

\* A returned scan that counted a missing resource next to one of another status.
C5_Witness ==
    /\ ScanReturnedResults
    /\ ret.results.Missing = 1
    /\ ret.results.Total = 2

\* C6: whatever fails for single manifests, the scan returns no error and one
\* result per listed manifest, each the result the manifest has on its own,
\* so manifests with the same inputs get the same classification.
C6_FailuresAreIsolated ==
    (ret.returned /\ listErr = "" /\ Len(store) > 0) =>
        /\ ret.err = ""
        /\ ~ret.results.isNil
        /\ Len(ret.results.Results) = Len(store)
        /\ \A k \in 1..Len(store) : ret.results.Results[k] = OwnResult(k)
        /\ \A j \in 1..Len(store) : \A k \in 1..Len(store) :
              SameInputs(j, k) =>
                  /\ ret.results.Results[j].Status = ret.results.Results[k].Status
                  /\ ret.results.Results[j].Diffs = ret.results.Results[k].Diffs

\* A returned scan whose first manifest could not be read and whose second was in sync.
C6_Witness ==
    /\ ScanReturnedResults
    /\ Len(store) = 2
    /\ ReadManifest(store[1]).err # ""
    /\ ret.results.Results[2].Status = "in_sync"

ReadFails == pc = "loop" /\ idx < Len(store) /\ ReadManifest(store[idx + 1]).err # ""

\* C7: an iteration whose read fails appends an error result carrying the read
\* error, increments only the error counter, issues no parse, resolve or get,
\* and leaves the loop at the next manifest.
C7_ReadFailureSkipsClassifier ==
    [][ReadFails =>
          LET m == store[idx + 1]
              issued == SubSeq(calls', Len(calls) + 1, Len(calls'))
          IN  /\ results'.Results =
                     Append(results.Results,
                            DriftResult(m.Namespace, m.App, m.Type, "error", <<>>,
                                        ReadManifest(m).err))
              /\ results'.Errors = results.Errors + 1
              /\ results'.InSync = results.InSync
              /\ results'.Drifted = results.Drifted
              /\ results'.Missing = results.Missing
              /\ results'.Total = results.Total
              /\ \A k \in 1..Len(issued) : issued[k].op \in {"progress", "read"}
              /\ pc' = "loop"
              /\ idx' = idx + 1]_vars

\* A scan that went on to classify the second manifest after the first could not be read.
C7_Witness ==
    /\ Processed = 2
    /\ ReadManifest(store[1]).err # ""
    /\ results.Results[1].Status = "error"
    /\ results.Results[2].Status = "drifted"

CallsAt(i) == SelectSeq(calls, LAMBDA c : c.i = i)

Identity(m) == <<m.Namespace, m.App, m.Type>>

\* C8: the calls are issued manifest by manifest in listing order, nothing of
\* a manifest is issued before the one before it is done, Results[i] belongs
\* to the i-th listed manifest, and progress is called once per manifest,
\* before its read, with (i, N, namespace, app, kind).
C8_SequentialInListingOrder ==
    /\ \A k \in 1..(Len(calls) - 1) : calls[k].i <= calls[k + 1].i
    /\ \A i \in 0..(Len(store) - 1) :
          LET mine == CallsAt(i)
              m == store[i + 1]
              first == IF hasProgress THEN 2 ELSE 1
          IN  IF i < Processed
              THEN /\ Len(mine) >= first
                   /\ hasProgress =>
                          mine[1] = [op |-> "progress",
                                     args |-> <<i, Len(store), m.Namespace, m.App, m.Type>>,
                                     i |-> i]
                   /\ mine[first].op = "read"
                   /\ mine[first].args = Identity(m)
                   /\ \A k \in (first + 1)..Len(mine) : mine[k].op \in {"parse", "resolve", "get"}
                   /\ LET r == results.Results[i + 1]
                      IN  <<r.Namespace, r.Name, r.Kind>> = Identity(m)
              ELSE mine = <<>>

\* A returned scan of two manifests that reported progress.
C8_Witness ==
    /\ ret.returned
    /\ hasProgress
    /\ Processed = 2
    /\ Issued("get")

\* C9: when no manifest is listed, the scan returns nil results and a nil
\* error, and issues nothing but the listing.
C9_EmptyStoreReturnsNil ==
    (ret.returned /\ listErr = "" /\ Len(store) = 0) =>
        /\ ret.results.isNil
        /\ ret.err = ""
        /\ \A k \in 1..Len(calls) : calls[k].op = "list"

\* A scan of an empty store that has returned.
C9_Witness ==
    /\ ret.returned
    /\ listErr = ""
    /\ Len(store) = 0
    /\ Issued("list")

-----------------------------------------------------------------------------
(* Properties of the engine as a whole (SpecEngine)                        *)

\* Steps the engine takes in-process or reports to its caller; every other
\* entry of the call log is an operation on the store or on the cluster.
InProcessSteps == {"progress", "parse", "resolve"}

\* C11: the engine is read-only.  Across a scan or a single comparison the
\* manifest store and the cluster stay as they were, and the only operations
\* issued to them are list and read on the store and get on the cluster.
C11_EngineIsReadOnly ==
    /\ [](\A k \in 1..Len(calls) :
              calls[k].op \notin InProcessSteps => calls[k].op \in {"list", "read", "get"})
    /\ [][store' = store /\ listErr' = listErr /\ cluster' = cluster]_vars

\* A scan of two manifests returned after reading both and fetching a live object.
C11_Witness ==
    /\ pc = "returned"
    /\ Len(store) = 2
    /\ Cardinality({k \in 1..Len(calls) : calls[k].op = "read"}) = 2
    /\ \E k \in 1..Len(calls) : calls[k].op = "get" /\ cluster[calls[k].i + 1].err = ""

-----------------------------------------------------------------------------
(* Properties of direct calls (SpecDiff)                                   *)

\* A step from a container to one of its members.
Key(k) == [key |-> k, index |-> -1]

Index(i) == [key |-> "", index |-> i]

IsKey(seg) == seg.index = -1

\* Every location of the value val, as the steps leading to it from val.
RECURSIVE Locations(_)
Locations(val) ==
    {<<>>}
    \cup (IF val.t = "map"
          THEN UNION {{<<Key(k)>> \o p : p \in Locations(val.v[k])} : k \in DOMAIN val.v}
          ELSE {})
    \cup (IF val.t = "slice"
          THEN UNION {{<<Index(i - 1)>> \o p : p \in Locations(val.v[i])} : i \in 1..Len(val.v)}
          ELSE {})

Absent == [found |-> FALSE, val |-> Nil]

RECURSIVE ValueAt(_, _)
ValueAt(val, segs) ==
    IF segs = <<>> THEN [found |-> TRUE, val |-> val]
    ELSE LET seg == Head(segs)
         IN  IF IsKey(seg)
             THEN IF val.t = "map" /\ seg.key \in DOMAIN val.v
                  THEN ValueAt(val.v[seg.key], Tail(segs)) ELSE Absent
             ELSE IF val.t = "slice" /\ seg.index < Len(val.v)
                  THEN ValueAt(val.v[seg.index + 1], Tail(segs)) ELSE Absent

\* Keys joined by '.', list positions written as [i] directly after the list.
RECURSIVE RenderSegs(_)
RenderSegs(segs) ==
    IF segs = <<>> THEN ""
    ELSE LET seg == segs[Len(segs)]
             before == RenderSegs(SubSeq(segs, 1, Len(segs) - 1))
         IN  IF IsKey(seg)
             THEN (IF before = "" THEN seg.key ELSE before \o "." \o seg.key)
             ELSE before \o "[" \o ToString(seg.index) \o "]"

Render(prefix, segs) == IF prefix # "" THEN prefix \o "." \o RenderSegs(segs) ELSE RenderSegs(segs)

ArgLocations == (Locations(arg.stored) \cup Locations(arg.live)) \ {<<>>}

DiffMapsCalled == pc \in {"DiffMaps", "cleanForImport"}

\* The documents DiffMaps was given.
GivenStored == IF pc = "cleanForImport" THEN Map(cleanForImport(arg.stored.v)) ELSE arg.stored

GivenLive == IF pc = "cleanForImport" THEN Map(cleanForImport(arg.live.v)) ELSE arg.live

\* C12: a document compared with a structurally equal copy of itself, cleaned
\* by cleanForImport or not, yields no entries.
C12_EqualDocumentsYieldNoEntries ==
    (DiffMapsCalled /\ arg.stored = arg.live) => out.diffs = <<>>

\* A cleaned cluster object with annotations, a port list and numbers was compared with itself.
C12_Witness ==
    /\ pc = "cleanForImport"
    /\ arg.stored = arg.live
    /\ arg.stored = Map(Document([annotations |-> Map([k \in AnnotationPool |-> Str("nginx")])], TRUE))
    /\ out.diffs = <<>>

GivenPrefix == IF pc = "cleanForImport" THEN "" ELSE arg.prefix

GivenLocations == (Locations(GivenStored) \cup Locations(GivenLive)) \ {<<>>}

\* The locations whose path, written as the claim says, is the entry's Path.
LocationsOf(e) == {segs \in GivenLocations : Render(GivenPrefix, segs) = e.Path}

SegLess(a, b) ==
    IF IsKey(a) /\ IsKey(b) THEN StrLess(a.key, b.key)
    ELSE IF ~IsKey(a) /\ ~IsKey(b) THEN a.index < b.index
    ELSE FALSE

\* p comes before q in a traversal that takes keys in byte order and list
\* elements in index order; neither lies inside the other.
RECURSIVE SegsLess(_, _)
SegsLess(p, q) ==
    IF p = <<>> \/ q = <<>> THEN FALSE
    ELSE IF Head(p) = Head(q) THEN SegsLess(Tail(p), Tail(q))
    ELSE SegLess(Head(p), Head(q))

\* C13: DiffMaps visits the keys of both documents in byte-wise sorted order
\* at every nesting level and list elements in index order, so its entries
\* come in that one order whatever order the maps yield their keys in.
C13_EntriesInSortedTraversalOrder ==
    DiffMapsCalled =>
        /\ \A i \in 1..Len(out.diffs) : Cardinality(LocationsOf(out.diffs[i])) = 1
        /\ \A i \in 1..Len(out.diffs) : \A j \in 1..Len(out.diffs) :
               i < j => \A p \in LocationsOf(out.diffs[i]) : \A q \in LocationsOf(out.diffs[j]) :
                            SegsLess(p, q)

\* Three entries on two nesting levels, from maps that yield their keys in descending order.
C13_Witness ==
    /\ pc = "DiffMaps"
    /\ mapOrder = "descending"
    /\ Len(out.diffs) = 3
    /\ \E i \in 1..3 : out.diffs[i].Path = "spec.replicas"

Mirror(e) ==
    DiffEntry(e.Path,
              CASE e.ChangeType = "added" -> "removed"
                [] e.ChangeType = "removed" -> "added"
                [] OTHER -> e.ChangeType,
              e.Live, e.Stored)

\* The entries at the location segs or below it.
EntriesAtOrBelow(segs) ==
    LET path == Render(arg.prefix, segs)
    IN  SelectSeq(out.diffs, LAMBDA e : \/ e.Path = path
                                       \/ HasPrefix(e.Path, path \o ".")
                                       \/ HasPrefix(e.Path, path \o "["))

\* The key that ends segs is in the map of one side only; the map itself is
\* in both documents.
KeyOnlyIn(present, missing, segs) ==
    LET parent == SubSeq(segs, 1, Len(segs) - 1)
    IN  /\ IsKey(segs[Len(segs)])
        /\ ValueAt(present, segs).found
        /\ ValueAt(missing, parent).found
        /\ ValueAt(missing, parent).val.t = "map"
        /\ ~ValueAt(missing, segs).found

\* C14: a key only the live document has yields exactly one 'added' entry
\* with the live value and no stored value, a key only the stored document
\* has exactly one 'removed' entry with the stored value and no live value,
\* nothing below such a key is reported, and exchanging the two documents
\* turns added into removed and removed into added at the same paths.
C14_OneSidedKeysAndSymmetry ==
    pc = "DiffMaps" =>
        /\ \A segs \in ArgLocations :
               KeyOnlyIn(arg.live, arg.stored, segs) =>
                   EntriesAtOrBelow(segs) =
                       <<DiffEntry(Render(arg.prefix, segs), "added", Nil, ValueAt(arg.live, segs).val)>>
        /\ \A segs \in ArgLocations :
               KeyOnlyIn(arg.stored, arg.live, segs) =>
                   EntriesAtOrBelow(segs) =
                       <<DiffEntry(Render(arg.prefix, segs), "removed", ValueAt(arg.stored, segs).val, Nil)>>
        /\ LET swapped == DiffMaps(arg.live.v, arg.stored.v, arg.prefix)
           IN  out.diffs = [i \in 1..Len(swapped) |-> Mirror(swapped[i])]

\* A nested key with a subtree of its own is in the live document only, and a
\* top-level key in the stored document only.
C14_Witness ==
    /\ pc = "DiffMaps"
    /\ arg.stored = Map([spec |-> Map([replicas |-> Int64(80)]), metadata |-> Map([name |-> Str("nginx")])])
    /\ arg.live = PodSpec(<<Container("nginx")>>)
    /\ Len(out.diffs) = 3

\* C15: the Path of every entry is the exact location of the difference: the
\* map keys from the root joined by '.', a list position written [i] right
\* after the list's path, a non-empty prefix put in front followed by '.',
\* and no leading '.' otherwise.
C15_PathIsExactLocation ==
    pc = "DiffMaps" =>
        \A i \in 1..Len(out.diffs) :
            LET e == out.diffs[i]
            IN  \E segs \in ArgLocations :
                    LET s == ValueAt(arg.stored, segs)
                        l == ValueAt(arg.live, segs)
                    IN  /\ e.Path = Render(arg.prefix, segs)
                        /\ CASE e.ChangeType = "added" ->
                                    ~s.found /\ l.found /\ e.Live = l.val
                              [] e.ChangeType = "removed" ->
                                    s.found /\ ~l.found /\ e.Stored = s.val
                              [] e.ChangeType = "changed" ->
                                    /\ s.found /\ l.found
                                    /\ e.Stored = s.val /\ e.Live = l.val
                                    /\ s.val # l.val
                              [] OTHER -> FALSE

\* The image of the first container differs, with and without a prefix.
C15_Witness ==
    /\ pc = "DiffMaps"
    /\ \E i \in 1..Len(out.diffs) :
          /\ out.diffs[i].ChangeType = "changed"
          /\ out.diffs[i].Path = arg.prefix \o (IF arg.prefix = "" THEN "" ELSE ".")
                                            \o "spec.template.spec.containers[0].image"
    /\ arg.prefix = "spec"

BothSlices == arg.stored.t = "slice" /\ arg.live.t = "slice"

ElemPath(i) == arg.prefix \o "[" \o ToString(i) \o "]"

\* What comparing the elements at the indices i .. n-1 of both lists yields.
RECURSIVE Pairwise(_, _)
Pairwise(i, n) ==
    IF i >= n THEN <<>>
    ELSE diffValues(arg.stored.v[i + 1], arg.live.v[i + 1], ElemPath(i)) \o Pairwise(i + 1, n)

\* C16: for two lists the indices below the shorter length are compared
\* pairwise, and every index from the shorter length up to the longer length
\* minus one yields exactly one entry at path[i], 'added' when the live list
\* is the longer one and 'removed' when the stored list is, carrying that
\* element and not looking into it; these entries come last, in index order.
C16_ListsPairwiseThenSurplus ==
    (pc = "diffValues" /\ BothSlices) =>
        LET stored == arg.stored.v
            live == arg.live.v
            shorter == IF Len(stored) <= Len(live) THEN Len(stored) ELSE Len(live)
            longer == IF Len(stored) <= Len(live) THEN Len(live) ELSE Len(stored)
            surplus == [k \in 1..(longer - shorter) |->
                           IF Len(live) > Len(stored)
                           THEN DiffEntry(ElemPath(shorter + k - 1), "added", Nil, live[shorter + k])
                           ELSE DiffEntry(ElemPath(shorter + k - 1), "removed", stored[shorter + k], Nil)]
        IN  out.diffs = Pairwise(0, shorter) \o surplus

\* A stored list of two against a live list of one whose first element differs inside.
C16_Witness ==
    /\ pc = "diffValues"
    /\ BothSlices
    /\ Len(arg.stored.v) = 2
    /\ Len(arg.live.v) = 1
    /\ Len(out.diffs) = 2
    /\ out.diffs[1].ChangeType = "changed"
    /\ out.diffs[2].ChangeType = "removed"

\* Go's integer and floating-point types.
GoNumericTypes == ConvertedTypes \cup {"int8", "int16", "uint8", "uint16"}

BothNumbers == arg.stored.t \in GoNumericTypes /\ arg.live.t \in GoNumericTypes

\* C17: two numbers compare equal exactly when they are the same number,
\* whatever integer or floating-point type either has; two different numbers
\* yield exactly one 'changed' entry carrying both values.
C17_NumbersEqualIffSameNumber ==
    (pc = "diffValues" /\ BothNumbers) =>
        IF arg.stored.v = arg.live.v
        THEN out.diffs = <<>>
        ELSE out.diffs = <<DiffEntry(arg.prefix, "changed", arg.stored, arg.live)>>

\* C18: cleanForImport is idempotent: cleaning a cleaned document changes nothing.
C18_CleanForImportIsIdempotent ==
    pc = "cleanForImport" => out.twice = out.once

\* A cluster object whose annotations are all tooling annotations was cleaned twice.
C18_Witness ==
    /\ pc = "cleanForImport"
    /\ arg.stored = Map(Document([annotations |->
                                     Map([k \in {"kubernetes.io/change-cause"} |-> Str("nginx")])], TRUE))
    /\ out.once # arg.stored
    /\ out.twice = out.once

\* The keys of AnnotationPool that start with kubectl.kubernetes.io/ or
\* deployment.kubernetes.io/ or are kubernetes.io/change-cause.
ToolingAnnotations ==
    {"kubectl.kubernetes.io/restartedAt", "deployment.kubernetes.io/revision",
     "kubernetes.io/change-cause"}

HasAnnotationMap(doc) == IsMapAt(doc, "metadata") /\ IsMapAt(doc["metadata"].v, "annotations")

\* C19: cleanForImport removes from metadata.annotations exactly the tooling
\* keys, keeps every other annotation with its value, and removes the
\* annotations key itself exactly when no annotation is left.
C19_ExactlyToolingAnnotationsRemoved ==
    (pc = "cleanForImport" /\ HasAnnotationMap(arg.stored.v)) =>
        LET before == arg.stored.v["metadata"].v["annotations"].v
            after == out.once.v["metadata"].v
            kept == (DOMAIN before) \ ToolingAnnotations
        IN  IF kept = {}
            THEN "annotations" \notin DOMAIN after
            ELSE /\ "annotations" \in DOMAIN after
                 /\ after["annotations"] = Map([k \in kept |-> before[k]])

\* A document with every annotation of the pool was cleaned and two annotations are left.
C19_Witness ==
    /\ pc = "cleanForImport"
    /\ HasAnnotationMap(arg.stored.v)
    /\ DOMAIN arg.stored.v["metadata"].v["annotations"].v = AnnotationPool
    /\ HasAnnotationMap(out.once.v)
    /\ Cardinality(DOMAIN out.once.v["metadata"].v["annotations"].v) = 2

-----------------------------------------------------------------------------
(* Cluster-assigned fields in a single comparison (Spec)                   *)

\* The annotations of the model's documents that tooling writes.
ToolingWritten ==
    ToolingAnnotations \cup {"kubectl.kubernetes.io/last-applied-configuration"}

\* val with every number written as a float64 of the same value.
RECURSIVE NumbersByValue(_)
NumbersByValue(val) ==
    CASE val.t \in GoNumericTypes -> Number("float64", val.v)
      [] val.t = "map" -> Map([k \in DOMAIN val.v |-> NumbersByValue(val.v[k])])
      [] val.t = "slice" -> Slice([i \in 1..Len(val.v) |-> NumbersByValue(val.v[i])])
      [] OTHER -> val

\* m without the keys of gone, when there is a map under key.
Without(doc, key, gone) ==
    IF IsMapAt(doc, key)
    THEN Put(doc, key, Map([k \in (DOMAIN doc[key].v) \ gone |-> doc[key].v[k]]))
    ELSE doc

\* The document without the fields the claim lists: the six metadata fields,
\* the status subtree, spec.clusterIP and spec.clusterIPs, the tooling
\* annotations, and the annotations map that held nothing else.
WithoutClusterFields(doc) ==
    LET noStatus == [k \in (DOMAIN doc) \ {"status"} |-> doc[k]]
        noAddress == Without(noStatus, "spec", {"clusterIP", "clusterIPs"})
        noRuntime == Without(noAddress, "metadata",
                             {"uid", "resourceVersion", "generation", "creationTimestamp",
                              "managedFields", "selfLink"})
        metadata == IF IsMapAt(noRuntime, "metadata") THEN noRuntime["metadata"].v ELSE EmptyMap
        noTooling == Without(metadata, "annotations", ToolingWritten)
        annotations == IF IsMapAt(noTooling, "annotations")
                       THEN (IF DOMAIN noTooling["annotations"].v = {}
                             THEN Delete(noTooling, "annotations") ELSE noTooling)
                       ELSE noTooling
    IN  IF IsMapAt(noRuntime, "metadata")
        THEN Put(noRuntime, "metadata", Map(annotations))
        ELSE noRuntime

DifferOnlyInClusterFields(stored, live) ==
    NumbersByValue(Map(WithoutClusterFields(stored))) = NumbersByValue(Map(WithoutClusterFields(live)))

\* C20: when the stored and the live document differ only in fields the
\* canonicalizer strips and in the representation of equal numbers, the
\* comparison reports in_sync, whichever side carries those fields.
C20_ClusterFieldsNeverDrift ==
    (/\ Compared /\ StoredParse.err = "" /\ FetchSucceeded
     /\ DifferOnlyInClusterFields(StoredParse.doc, cluster[1].obj))
        => (Outcome.Status = "in_sync" /\ Outcome.Diffs = <<>>)

\* The stored manifest carries every cluster-assigned field and the live object none.
C20_Witness ==
    /\ Compared /\ FetchSucceeded
    /\ store[1].Content = TextServiceFromCluster
    /\ cluster[1].obj = LiveBare
    /\ Outcome.Status = "in_sync"

-----------------------------------------------------------------------------
(* The API version of a comparison (Spec)                                  *)

\* The apiVersion line of each stored text that has one, and the group and
\* version it spells.
WrittenAPIVersion ==
    [t \in {TextService, TextServiceTwoPorts, TextServiceImported, TextServiceFromCluster,
            TextServiceGrouped} |->
        IF t = TextServiceGrouped
        THEN [text |-> "example.com/v1beta1", group |-> "example.com", version |-> "v1beta1"]
        ELSE [text |-> "v1", group |-> "", version |-> "v1"]]

\* The resource the table holds for each requested type it knows.
TableResource ==
    [t \in {"service", "svc", "Service", "namespace"} |->
        IF t = "namespace" THEN "namespaces" ELSE "services"]

\* C21: when the stored document declares an API version and the kind is known
\* to the table, the resolver is given the document's apiVersion and the live
\* fetch is issued for the group and version that string spells ('group/version',
\* or the empty group for a bare 'version') and the table's resource name.
C21_DeclaredAPIVersionIsFetched ==
    (/\ Compared
     /\ store[1].Content \in DOMAIN WrittenAPIVersion
     /\ store[1].Type \in DOMAIN TableResource) =>
        LET written == WrittenAPIVersion[store[1].Content]
        IN  /\ \E k \in 1..Len(calls) :
                  /\ calls[k].op = "resolve"
                  /\ calls[k].args = <<store[1].Type, written.text>>
            /\ \E k \in 1..Len(calls) :
                  /\ calls[k].op = "get"
                  /\ calls[k].args.gvr =
                         GVR(written.group, written.version, TableResource[store[1].Type])

\* An alias compared under a group/version of the document's own.
C21_Witness ==
    /\ Compared
    /\ store[1].Content = TextServiceGrouped
    /\ store[1].Type = "svc"
    /\ \E k \in 1..Len(calls) :
          /\ calls[k].op = "get"
          /\ calls[k].args.gvr = GVR("example.com", "v1beta1", "services")

-----------------------------------------------------------------------------
(* Properties of the resolver (SpecResolve)                                *)

\* The plural each unknown kind is fetched under.
FallbackPlural ==
    [n \in UnknownNames |->
        CASE n = "widget" -> "widgets"
          [] n = "box"    -> "boxes"
          [] n = "church" -> "churches"
          [] n = "dish"   -> "dishes"
          [] n = "gas"    -> "gases"
          [] n = "proxy"  -> "proxys"]

\* C22: for a kind that is not in the table after normalization,
\* BuildGVRFromKindAndAPIVersion reports found = false when no API version is
\* given (and so does LookupGVR); with an API version it reports found = true
\* and a resource name that is the lower-cased kind plus "es" when that ends in
\* s, x, ch or sh, and plus "s" otherwise.
C22_UnknownKindNeedsAPIVersion ==
    /\ (pc = "BuildGVRFromKindAndAPIVersion" /\ arg.of \in UnknownNames) =>
           IF arg.apiVersion = ""
           THEN ~out.found
           ELSE /\ out.found
                /\ out.gvr.Resource = FallbackPlural[arg.of]
    /\ (pc = "LookupGVR" /\ arg.of \in UnknownNames) => ~out.found

\* An unknown kind ending in "ch", in capitals, resolved under a group.
C22_Witness ==
    /\ pc = "BuildGVRFromKindAndAPIVersion"
    /\ arg.kind = "CHURCH"
    /\ arg.apiVersion = "example.com/v1beta1"
    /\ out.found
    /\ out.gvr = GVR("example.com", "v1beta1", "churches")

\* The canonical kind of a lower-case name of the tables.
Canonical(name) == IF name \in DOMAIN KindAliases THEN KindAliases[name] ELSE name

\* C23: for every alias and every letter-case spelling of an alias or of a
\* canonical name, NormalizeKindName returns the canonical lower-case kind,
\* which is a key of the known-kinds table, and LookupGVR,
\* BuildGVRFromKindAndAPIVersion and IsNamespaced give what they give for the
\* canonical name; NormalizeKindName applied to its own result changes nothing.
C23_KindsResolveByCanonicalName ==
    /\ pc = "NormalizeKindName" => out.again = out.normalized
    /\ arg.of \in KnownNames =>
          /\ Canonical(arg.of) \in DOMAIN CommonGVRs
          /\ Canonical(arg.of) \notin DOMAIN KindAliases
          /\ pc = "NormalizeKindName" => out.normalized = Canonical(arg.of)
          /\ pc = "LookupGVR" =>
                /\ out.found
                /\ out = LookupGVR(Canonical(arg.of))
          /\ pc = "BuildGVRFromKindAndAPIVersion" =>
                /\ out.found
                /\ out = BuildGVRFromKindAndAPIVersion(Canonical(arg.of), arg.apiVersion)
          /\ pc = "IsNamespaced" => out.namespaced = IsNamespaced(Canonical(arg.of))

\* An alias in capitals, normalized to its canonical kind.
C23_Witness ==
    /\ pc = "NormalizeKindName"
    /\ arg.kind = "HPA"
    /\ arg.of = "hpa"
    /\ out.normalized = "horizontalpodautoscaler"
    /\ out.again = "horizontalpodautoscaler"

\* The cluster-scoped kinds and every alias of one, in lower case.
ClusterScopedNames ==
    {"namespace", "ns", "namespaces",
     "clusterrole", "clusterroles",
     "clusterrolebinding", "clusterrolebindings",
     "clusterissuer", "clusterissuers",
     "gatewayclass", "gatewayclasses", "gc"}

\* C24: IsNamespaced is false exactly for namespace, clusterrole,
\* clusterrolebinding, clusterissuer, gatewayclass and their aliases, in any
\* letter case, and true for every other kind, unknown ones included; the live
\* fetch is issued in the given namespace exactly when the kind is namespaced
\* and without a namespace otherwise.
C24_NamespaceIffNamespacedKind ==
    /\ pc = "IsNamespaced" => (out.namespaced <=> arg.of \notin ClusterScopedNames)
    /\ pc = "FetchAndCleanLiveResource" =>
          \A k \in 1..Len(calls) :
              calls[k].op = "get" =>
                 /\ calls[k].args.namespaced <=> arg.of \notin ClusterScopedNames
                 /\ calls[k].args.namespace =
                        IF arg.of \in ClusterScopedNames THEN "" ELSE "prod"

\* An alias of a cluster-scoped kind fetched without a namespace.
C24_Witness ==
    /\ pc = "FetchAndCleanLiveResource"
    /\ arg.kind = "GC"
    /\ \E k \in 1..Len(calls) :
          /\ calls[k].op = "get"
          /\ ~calls[k].args.namespaced
          /\ calls[k].args.namespace = ""
          /\ calls[k].args.name = "myapp"

-----------------------------------------------------------------------------
(* Values of different kinds (SpecDiff)                                    *)

IsContainer(val) == val.t \in {"map", "slice"}

\* Not both maps and not both lists, and different: a map against a list, a
\* map or list against a scalar, or two unequal scalars that are not both numbers.
Mismatched(s, l) ==
    /\ ~(s.t = "map" /\ l.t = "map")
    /\ ~(s.t = "slice" /\ l.t = "slice")
    /\ s # l
    /\ ~(s.t \in GoNumericTypes /\ l.t \in GoNumericTypes)

\* The location is in both documents.
OnBothSides(segs) == ValueAt(arg.stored, segs).found /\ ValueAt(arg.live, segs).found

\* C28: for a key or index present on both sides whose two values are not both
\* maps and not both lists, and differ (a map against a list, a map or list
\* against a scalar, two unequal non-numeric scalars), diffValues emits exactly
\* one 'changed' entry at that path carrying both whole values and nothing
\* below it; when both are maps or both are lists it emits no entry for the
\* path itself.
C28_DifferentKindsAreOneChange ==
    /\ pc = "diffValues" =>
          /\ Mismatched(arg.stored, arg.live) =>
                out.diffs = <<DiffEntry(arg.prefix, "changed", arg.stored, arg.live)>>
          /\ (BothMaps \/ BothSlices) =>
                \A i \in 1..Len(out.diffs) : out.diffs[i].Path # arg.prefix
    /\ pc = "DiffMaps" =>
          \A segs \in ArgLocations :
              OnBothSides(segs) =>
                  LET s == ValueAt(arg.stored, segs).val
                      l == ValueAt(arg.live, segs).val
                      path == Render(arg.prefix, segs)
                  IN  /\ Mismatched(s, l) =>
                            EntriesAtOrBelow(segs) = <<DiffEntry(path, "changed", s, l)>>
                      /\ (IsContainer(s) /\ s.t = l.t) =>
                            \A i \in 1..Len(out.diffs) : out.diffs[i].Path # path

\* A map compared with a list at the path "spec".
C28_Witness ==
    /\ pc = "diffValues"
    /\ arg.prefix = "spec"
    /\ arg.stored.t = "map"
    /\ arg.live.t = "slice"
    /\ Len(arg.live.v) = 2
    /\ out.diffs = <<DiffEntry("spec", "changed", arg.stored, arg.live)>>

-----------------------------------------------------------------------------
(* An empty stored document (Spec)                                         *)

\* The requested types the table resolves without an API version.
TypesOfTheTable == {"service", "svc", "Service", "namespace"}

\* C30: a stored manifest that parses to an empty document is classified by
\* the live fetch alone: when its kind resolves without an API version and the
\* live resource exists, the status is in_sync with no entries, whatever the
\* live resource contains.
C30_EmptyDocumentIsInSync ==
    (/\ Compared
     /\ store[1].Content = TextEmpty
     /\ store[1].Type \in TypesOfTheTable
     /\ cluster[1].err = "") =>
        /\ Outcome.Status = "in_sync"
        /\ Outcome.Diffs = <<>>
        /\ Outcome.Error = ""
        /\ \E k \in 1..Len(calls) :
              /\ calls[k].op = "resolve"
              /\ calls[k].args = <<store[1].Type, "">>
        /\ Issued("get")

\* An empty manifest compared with a live Service that has labels and ports.
C30_Witness ==
    /\ Compared
    /\ store[1].Content = TextEmpty
    /\ store[1].Type = "service"
    /\ cluster[1] = Got(LiveLabelled)
    /\ Outcome.Status = "in_sync"

-----------------------------------------------------------------------------
(* The shape of every drift result (SpecEngine)                            *)

\* r describes the manifest m and its fields agree with each other.
Consistent(r, m) ==
    /\ r.Status \in {"in_sync", "drifted", "missing", "error"}
    /\ (Len(r.Diffs) > 0) <=> (r.Status = "drifted")
    /\ \A i \in 1..Len(r.Diffs) : r.Diffs[i].ChangeType \in {"changed", "removed"}
    /\ r.Error # "" => r.Status = "error"
    /\ r.Namespace = m.Namespace
    /\ r.Name = m.App
    /\ r.Kind = m.Type

\* C29: every DriftResult of CompareManifest or RunDriftScan has a Status among
\* in_sync, drifted, missing and error; its Diffs are non-empty exactly when the
\* Status is drifted and then hold only 'changed' and 'removed' entries; its
\* Error is set only when the Status is error; and its Namespace, Name and Kind
\* are the namespace, app and type of the manifest record it was made for.
C29_DriftResultsAreConsistent ==
    /\ Compared => Consistent(Outcome, store[1])
    /\ \A k \in 1..Len(results.Results) : Consistent(results.Results[k], store[k])
    /\ ScanReturnedResults =>
          /\ Len(ret.results.Results) = Len(store)
          /\ \A k \in 1..Len(ret.results.Results) : Consistent(ret.results.Results[k], store[k])

\* A returned scan with a drifted result and one of another status.
C29_Witness ==
    /\ ScanReturnedResults
    /\ Len(ret.results.Results) = 2
    /\ \E k \in 1..2 :
          /\ ret.results.Results[k].Status = "drifted"
          /\ Len(ret.results.Results[k].Diffs) > 0
    /\ \E k \in 1..2 : ret.results.Results[k].Status = "missing"

-----------------------------------------------------------------------------
(* The response of diff_resource (Spec)                                    *)

\* What the differencer produces for the stored and the live document, both cleaned.
Produced == DiffMaps(cleanForImport(StoredParse.doc), cleanForImport(cluster[1].obj), "")

ResponseDiffs ==
    IF "diffs" \in DOMAIN toolResp.response THEN toolResp.response["diffs"].v ELSE <<>>

\* The response entry e shows the DiffEntry d: its path, its change type and
\* each of the two values that is there.
ShownAs(d, e) ==
    /\ e.t = "map"
    /\ DOMAIN e.v = {"path", "change_type"}
                      \cup (IF d.Stored # Nil THEN {"stored"} ELSE {})
                      \cup (IF d.Live # Nil THEN {"live"} ELSE {})
    /\ e.v["path"] = Str(d.Path)
    /\ e.v["change_type"] = Str(d.ChangeType)
    /\ d.Stored # Nil => e.v["stored"] = d.Stored
    /\ d.Live # Nil => e.v["live"] = d.Live

Shows(entries) ==
    /\ Len(ResponseDiffs) = Len(entries)
    /\ \A i \in 1..Len(entries) : ShownAs(entries[i], ResponseDiffs[i])

\* C25 as stated: the response of diff_resource holds every DiffEntry the
\* differencer produces for the resource, each with its path, change type and
\* stored/live values.
C25_EveryProducedEntryReturned ==
    (Compared /\ StoredParse.err = "" /\ FetchSucceeded) => Shows(Produced)

\* C25: the response of diff_resource holds the DriftResult: namespace, name,
\* kind, status, the number of entries, the error when there is one, and every
\* 'changed' and 'removed' entry the differencer produces, in its order, each
\* with its path, change type and stored/live values; 'added' entries are not
\* returned.
C25_ResponseHoldsTheDriftResult ==
    Compared =>
        /\ toolResp.response["namespace"] = Str(store[1].Namespace)
        /\ toolResp.response["name"] = Str(store[1].App)
        /\ toolResp.response["kind"] = Str(store[1].Type)
        /\ toolResp.response["status"] = Str(Outcome.Status)
        /\ toolResp.response["diff_count"] = Int64(Len(ResponseDiffs))
        /\ Outcome.Error # "" => toolResp.response["error"] = Str(Outcome.Error)
        /\ Shows(Outcome.Diffs)
        /\ (StoredParse.err = "" /\ FetchSucceeded) =>
              Shows(SelectSeq(Produced, LAMBDA d : d.ChangeType \in {"changed", "removed"}))

\* A drifted resource whose live object also has a field the manifest lacks:
\* the response shows fewer entries than the differencer produced.
C25_Witness ==
    /\ Compared
    /\ Outcome.Status = "drifted"
    /\ Len(ResponseDiffs) > 0
    /\ Len(Produced) > Len(ResponseDiffs)
    /\ \E i \in 1..Len(ResponseDiffs) : "stored" \in DOMAIN ResponseDiffs[i].v

-----------------------------------------------------------------------------
(* Cancellation of a scan (SpecCancel)                                     *)

\* The calls a step adds to the log.
NewCalls == SubSeq(calls', Len(calls) + 1, Len(calls'))

\* C26: once the caller's context is cancelled no further manifest is read,
\* fetched or compared: the scan issues no read, parse, resolve or get and
\* appends no result after the cancellation.
C26_NothingAfterCancellation ==
    [][ctx = "cancelled" =>
          /\ \A k \in 1..Len(NewCalls) : NewCalls[k].op \notin {"read", "parse", "resolve", "get"}
          /\ results'.Results = results.Results]_vars

-----------------------------------------------------------------------------
(* Plan approval in the REPL (SpecRepl)                                    *)

\* What the user may type to approve and to reject, and what is neither and no exit.
Approvals == {"yes", " Y ", "/Approve"}

Rejections == {"no", "N", "/reject"}

OtherInputs == {"/plan", "deploy nginx", "  "}

\* The execution prompt of each plan, by the plan's description.
ExecutionPromptOf ==
    [d \in {"Create namespace demo", "Deploy nginx"} |->
        IF d = "Create namespace demo"
        THEN "The user has APPROVED your plan. Execute the following actions now:\n\nPlan: Create namespace demo\n\nActions to execute:\n1. Call create_namespace with parameters: name=demo (Reason: requested by the user)\n\nExecute these actions in order. Do not call propose_plan again - proceed directly with the mutating tools."
        ELSE "The user has APPROVED your plan. Execute the following actions now:\n\nPlan: Deploy nginx\n\nActions to execute:\n1. Call create_deployment with parameters: name=nginx (Reason: run the image)\n2. Call create_service with parameters: name=nginx (Reason: expose it)\n\nExecute these actions in order. Do not call propose_plan again - proceed directly with the mutating tools."]

PlanPending == ~repl.state.PendingPlan.isNil

\* The step starts the agent: one more prompt has been sent.
AgentStarted == repl'.prompts # repl.prompts

\* The step is a submitted input: only handleSubmit empties the input area.
Submitted(inputs) == repl.textarea \in inputs /\ repl'.textarea = ""

\* C27: a proposed plan is executed only after explicit approval.  While a
\* plan is pending the agent is started only by yes, y or /approve, which
\* clears the pending plan, switches the mode to executing and sends the
\* plan's execution prompt; no, n or /reject clears the plan and starts
\* nothing; any other input that is no exit leaves the plan pending and is not
\* sent to the agent; an approval with no plan pending starts nothing; and
\* nothing but a submitted input starts the agent.
C27_PlanRunsOnlyOnApproval ==
    [][/\ AgentStarted =>
             /\ Submitted(Inputs)
             /\ Len(repl'.prompts) = Len(repl.prompts) + 1
             /\ repl'.agentBusy
       /\ (PlanPending /\ AgentStarted) => repl.textarea \in Approvals
       /\ (PlanPending /\ Submitted(Approvals)) =>
             /\ AgentStarted
             /\ repl'.state.PendingPlan.isNil
             /\ repl'.state.Mode = ModeExecuting
             /\ repl'.prompts[Len(repl'.prompts)] =
                    ExecutionPromptOf[repl.state.PendingPlan.Description]
       /\ (PlanPending /\ Submitted(Rejections)) =>
             /\ ~AgentStarted
             /\ repl'.state.PendingPlan.isNil
       /\ (PlanPending /\ Submitted(OtherInputs)) =>
             /\ ~AgentStarted
             /\ repl'.state.PendingPlan = repl.state.PendingPlan
       /\ (~PlanPending /\ Submitted(Approvals)) =>
             /\ ~AgentStarted
             /\ repl'.state = repl.state]_vars

\* An approved plan being executed: the plan is cleared, the mode is
\* executing and the agent runs on the plan's execution prompt.
C27_Witness ==
    /\ pc = "repl"
    /\ repl.agentBusy
    /\ repl.state.Mode = ModeExecuting
    /\ repl.state.PendingPlan.isNil
    /\ repl.printed = <<"> yes", "Plan approved. Executing...">>
    /\ Len(repl.prompts) = 2
    /\ repl.prompts[1] = "deploy nginx"
    /\ repl.prompts[2] = ExecutionPromptOf["Deploy nginx"]

====
